---- MODULE Spec2Model ----
(***************************************************************************)
(* Model of the sales-data generator and trend analyzer of                 *)
(* services/notebook cells.js (validateOptions, generateMonthlySalesData,  *)
(* seededRng, validateData, analyzeTrends).                                *)
(*                                                                         *)
(* JavaScript values are tagged records ([t |-> "number", milli |-> ...]). *)
(* Numbers are fixed-point, in thousandths: the number 1.5 is milli 1500.  *)
(* A product of two numbers is truncated to the thousandth below, and      *)
(* Math.sin is tabulated in thousandths at multiples of 15 degrees.        *)
(* A calendar date is [y, m, d] with m 0-based as in JavaScript; all       *)
(* dates are UTC midnight, and the host time zone is taken to be UTC.      *)
(***************************************************************************)
EXTENDS Integers, Sequences, FiniteSets, TLC

(***************************** bounds **************************************)
\* largest count among the configs that are generated step by step
MaxCount == 3
\* number of calls of an ambient random source that may return any draw
MaxFreeCalls == 4
\* largest seed handed to seededRng
MaxSeed == 2

(****************************** state **************************************)
Calls == {1, 2}

VARIABLES
  callOpts, \* callOpts[c]: the options object of call c
  pc,       \* pc[c]: "idle", "loop" (in the for loop), "done" or "threw"
  loopI,    \* loopI[c]: the loop variable i
  callData, \* callData[c]: the array built so far, returned when done
  thrown,   \* thrown[c]: the Error thrown
  callRng,  \* callRng[c]: the closure of the random source of call c
  drawn,    \* drawn[c]: the values the random source has returned to call c
  aPc,      \* analyzeTrends: "idle", "done" (returned) or "threw"
  aInput,   \* the argument of analyzeTrends
  aResult,  \* the object analyzeTrends returned, as a function of its keys
  aThrown,  \* the Error analyzeTrends threw
  aData,    \* the array passed to analyzeTrends, as the call left it
  cPc,      \* dataToCSV: "idle", "done" (returned) or "threw"
  cInput,   \* the argument of dataToCSV
  cText,    \* the string dataToCSV returned, as a sequence of characters
  cThrown,  \* the Error dataToCSV threw
  cData,    \* the array passed to dataToCSV, as the call left it
  exPc,     \* example component: exPc[g] is "idle" or "ready" for closure g
  exStart,  \* exStart[g]: params.seed when closure g was built
  exSeed,   \* exSeed[g]: the variable seed of closure g
  exOuts,   \* exOuts[g]: the numerators of the values g returned, over 2147483646
  config,        \* App: the config state
  generatedCode, \* App: the generatedCode state
  isLoading,     \* App: the isLoading state
  error,         \* App: the error state
  disabled,      \* the disabled attribute of the Generate button as rendered
  inFlight,      \* the number of handleGenerate runs awaiting their promise
  codeAtStart,   \* generatedCode when the latest run started
  outcome,       \* how the latest run ended: "none", "resolved", "rejected"
  settledCode,   \* the code the latest resolved promise carried
  runs,          \* the number of runs started
  runConfig      \* the config the callback of the latest run closed over

genVars == <<callOpts, pc, loopI, callData, thrown, callRng, drawn>>
anaVars == <<aPc, aInput, aResult, aThrown, aData>>
csvVars == <<cPc, cInput, cText, cThrown, cData>>
exVars == <<exPc, exStart, exSeed, exOuts>>
appVars ==
  <<config, generatedCode, isLoading, error, disabled, inFlight, codeAtStart, outcome,
    settledCode, runs, runConfig>>
vars == <<genVars, anaVars, csvVars, exVars, appVars>>

(************************* JavaScript values *******************************)
Undef == [t |-> "undefined"]
NaN == [t |-> "NaN"]
Num(n) == [t |-> "number", milli |-> n * 1000]
Milli(m) == [t |-> "number", milli |-> m]
Str(s) == [t |-> "string", s |-> s]
Arr(items) == [t |-> "array", items |-> items]
NotArr == [t |-> "object"]

\* typeof v (NaN is a number; an array is an object)
Typeof(v) ==
  IF v.t = "NaN" THEN "number"
  ELSE IF v.t = "array" THEN "object"
  ELSE IF v.t = "date" \/ v.t = "isodate" THEN "string"
  ELSE v.t

IsNum(v) == v.t = "number"

\* floor(a * b / 1000) for b in -2000..2000, without leaving 32 bits
MulMilli(a, b) == (a \div 1000) * b + ((a % 1000) * b) \div 1000

Max(a, b) == IF a > b THEN a ELSE b

(***************************** calendar ************************************)
IsLeap(y) == (y % 4 = 0 /\ y % 100 # 0) \/ y % 400 = 0

DaysInMonth(y, m) ==
  IF m = 1 THEN (IF IsLeap(y) THEN 29 ELSE 28)
  ELSE IF m \in {3, 5, 8, 10} THEN 30
  ELSE 31

YMD(y, m, d) == [y |-> y, m |-> m, d |-> d]

\* a startDate option: the ISO string of a calendar date, or a string that
\* does not parse
DateStr(y, m, d) == [t |-> "isodate", date |-> YMD(y, m, d)]
BadDateStr == Str("invalid")

\* new Date(v): the calendar date, or an Invalid Date
InvalidDate == [invalid |-> TRUE]
IsInvalidDate(dt) == "invalid" \in DOMAIN dt

NewDate(v) ==
  IF v.t = "isodate" THEN v.date ELSE InvalidDate

\* Date.prototype.setUTCMonth(mo) on date dt: MakeDay(year, mo, day) carries
\* the month into the year and a day past the end of the month into the
\* next month
SetUTCMonth(dt, mo) ==
  LET y1 == dt.y + (mo \div 12)
      m1 == mo % 12
      len == DaysInMonth(y1, m1)
  IN IF dt.d <= len THEN YMD(y1, m1, dt.d)
     ELSE YMD(IF m1 = 11 THEN y1 + 1 ELSE y1, (m1 + 1) % 12, dt.d - len)

Digits == <<"0", "1", "2", "3", "4", "5", "6", "7", "8", "9">>
Digit(n) == Digits[n + 1]
Pad2(n) == <<Digit(n \div 10), Digit(n % 10)>>
Pad4(n) ==
  <<Digit(n \div 1000), Digit((n \div 100) % 10), Digit((n \div 10) % 10), Digit(n % 10)>>

\* toISOString().slice(0, 7): the year and the month only
ToISODate_yearMonth(dt) == Pad4(dt.y) \o <<"-">> \o Pad2(dt.m + 1)

\* toISOString().slice(0, 10), as a sequence of characters
ToISODate(dt) == Pad4(dt.y) \o <<"-">> \o Pad2(dt.m + 1) \o <<"-">> \o Pad2(dt.d)

RECURSIVE DaysBeforeMonth(_, _)
DaysBeforeMonth(y, m) ==
  IF m = 0 THEN 0 ELSE DaysBeforeMonth(y, m - 1) + DaysInMonth(y, m - 1)

\* the time value of a Date, in days
TimeValue(dt) ==
  365 * dt.y + ((dt.y - 1) \div 4) - ((dt.y - 1) \div 100) + ((dt.y - 1) \div 400)
    + DaysBeforeMonth(dt.y, dt.m) + dt.d

(*************************** random sources ********************************)
Seeds == 0..MaxSeed

\* an rng option: a function value, described by how it draws
MathRandom == [t |-> "function", kind |-> "free", value |-> 0, seed |-> 0]
ConstRng(r) == [t |-> "function", kind |-> "const", value |-> r, seed |-> 0]
SeededDesc(seed) == [t |-> "function", kind |-> "seeded", value |-> 0, seed |-> seed]
NotFn == Str("random")

\* the draws, in thousandths, an arbitrary source may return
Draws == {0, 250, 999}
\* the draws of an arbitrary source after its first MaxFreeCalls calls
LateDraws == {500}

\* the closure behind an rng option: its generator state and the number of
\* times it has been called
Closure(kind, value, state) ==
  [kind |-> kind, value |-> value, state |-> state, calls |-> 0]

\* a generator shared by every closure, continuing where the first call is
seededRng_shared(seed) == Closure("seeded", 0, callRng[1].state)

\* seededRng(seed): seedrandom(String(seed)) is a deterministic generator
\* keyed by the seed; it is abstracted to a congruential generator on
\* thousandths
seededRng(seed) == Closure("seeded", 0, (137 * seed + 1) % 1000)

SeededNext(state) == (21 * state + 7) % 1000

\* the closure the caller builds for an rng option
NewClosure(rng) ==
  IF rng.t # "function" THEN Closure("none", 0, 0)
  ELSE IF rng.kind = "seeded" THEN seededRng(rng.seed)
  ELSE Closure(rng.kind, rng.value, 0)

\* the values the next call of closure cl may return when it is arbitrary
\* (a single dummy otherwise)
Choices(cl) ==
  IF cl.kind = "free"
  THEN (IF cl.calls < MaxFreeCalls THEN Draws ELSE LateDraws)
  ELSE {0}

\* rng(): the value returned, d being the choice of an arbitrary source
RngValue(cl, d) ==
  IF cl.kind = "free" THEN d
  ELSE IF cl.kind = "const" THEN cl.value
  ELSE cl.state

\* the closure after the call
RngAfter(cl) ==
  [cl EXCEPT !.calls = @ + 1,
             !.state = IF cl.kind = "seeded" THEN SeededNext(@) ELSE @]

(*************************** validateOptions *******************************)
Err(field, msg) == [field |-> field, msg |-> msg]

\* `cond` pushes e
PushIf(cond, e) == IF cond THEN <<e>> ELSE <<>>

Defined(v) == Typeof(v) # "undefined"

\* Number.isInteger(v)
IsInteger(v) == IsNum(v) /\ v.milli % 1000 = 0

\* v < n and v > n of JavaScript for a number n: false unless v is a number
\* (a string that is no numeral and NaN compare false with everything)
Less(v, n) == IsNum(v) /\ v.milli < n * 1000
Greater(v, n) == IsNum(v) /\ v.milli > n * 1000

countErrors(opts) ==
  IF Defined(opts.count)
  THEN PushIf(~IsInteger(opts.count), Err("count", "count must be an integer"))
       \o PushIf(Less(opts.count, 0), Err("count", "count must be non-negative"))
       \o PushIf(Greater(opts.count, 120),
                 Err("count", "count must be <= 120 months (10 years)"))
  ELSE <<>>

\* date.getFullYear() < 1900 || date.getFullYear() > 2100, false for NaN
YearOutOfRange(dt) == ~IsInvalidDate(dt) /\ (dt.y < 1900 \/ dt.y > 2100)

startDateErrors(opts) ==
  IF Defined(opts.startDate)
  THEN LET date == NewDate(opts.startDate)
       IN PushIf(IsInvalidDate(date),
                 Err("startDate", "startDate must be a valid date string or Date object"))
          \o PushIf(YearOutOfRange(date),
                    Err("startDate", "startDate year must be between 1900 and 2100"))
  ELSE <<>>

numericBounds ==
  << [key |-> "baseValue", min |-> 0, max |-> 1000000,
      msg |-> "baseValue must be between 0 and 1000000 (base sales value)"],
     [key |-> "trendPerMonth", min |-> -100000, max |-> 100000,
      msg |-> "trendPerMonth must be between -100000 and 100000 (monthly trend)"],
     [key |-> "seasonalityAmplitude", min |-> 0, max |-> 100000,
      msg |-> "seasonalityAmplitude must be between 0 and 100000 (seasonality amplitude)"],
     [key |-> "seasonalityPeriod", min |-> 1, max |-> 24,
      msg |-> "seasonalityPeriod must be between 1 and 24 (seasonality period (months))"],
     [key |-> "noiseAmount", min |-> 0, max |-> 100000,
      msg |-> "noiseAmount must be between 0 and 100000 (noise amount)"] >>

MustBeNumberMsg ==
  [baseValue |-> "baseValue must be a number",
   trendPerMonth |-> "trendPerMonth must be a number",
   seasonalityAmplitude |-> "seasonalityAmplitude must be a number",
   seasonalityPeriod |-> "seasonalityPeriod must be a number",
   noiseAmount |-> "noiseAmount must be a number"]

OutOfBounds_exclusive(val, b) == ~Greater(val, b.min) \/ ~Less(val, b.max)

\* val < min || val > max
OutOfBounds(val, b) == Less(val, b.min) \/ Greater(val, b.max)

\* the body of the forEach over numericBounds, for one entry
boundErrors(opts, b) ==
  LET val == opts[b.key]
  IN IF Defined(val)
     THEN IF Typeof(val) # "number" \/ val.t = "NaN"
          THEN <<Err(b.key, MustBeNumberMsg[b.key])>>
          ELSE PushIf(OutOfBounds(val, b), Err(b.key, b.msg))
     ELSE <<>>

RECURSIVE numericErrors(_, _)
numericErrors(opts, k) ==
  IF k > Len(numericBounds) THEN <<>>
  ELSE boundErrors(opts, numericBounds[k]) \o numericErrors(opts, k + 1)

Range(seq) == {seq[k] : k \in DOMAIN seq}

\* the categories check without the test for duplicates
categoriesErrors_duplicatesAllowed(opts) ==
  LET cats == opts.categories
  IN IF Defined(cats)
     THEN IF cats.t # "array"
          THEN <<Err("categories", "categories must be an array")>>
          ELSE PushIf(Len(cats.items) = 0,
                      Err("categories", "categories array cannot be empty"))
               \o PushIf(\E k \in DOMAIN cats.items : Typeof(cats.items[k]) # "string",
                         Err("categories", "all category names must be strings"))
     ELSE <<>>

categoriesErrors(opts) ==
  LET cats == opts.categories
  IN IF Defined(cats)
     THEN IF cats.t # "array"
          THEN <<Err("categories", "categories must be an array")>>
          ELSE PushIf(Len(cats.items) = 0,
                      Err("categories", "categories array cannot be empty"))
               \o PushIf(\E k \in DOMAIN cats.items : Typeof(cats.items[k]) # "string",
                         Err("categories", "all category names must be strings"))
               \o PushIf(Cardinality(Range(cats.items)) # Len(cats.items),
                         Err("categories", "category names must be unique"))
     ELSE <<>>

rngErrors(opts) ==
  PushIf(Defined(opts.rng) /\ Typeof(opts.rng) # "function",
         Err("rng", "rng must be a function"))

\* fail-fast validation: only the first violation found is reported
validateOptions_firstOnly(opts) ==
  LET all == countErrors(opts) \o startDateErrors(opts) \o numericErrors(opts, 1)
               \o categoriesErrors(opts) \o rngErrors(opts)
  IN IF all = <<>> THEN <<>> ELSE <<Head(all)>>

validateOptions(opts) ==
  countErrors(opts) \o startDateErrors(opts) \o numericErrors(opts, 1)
    \o categoriesErrors(opts) \o rngErrors(opts)

(*********************** generateMonthlySalesData **************************)
Fields ==
  {"count", "startDate", "baseValue", "trendPerMonth", "seasonalityAmplitude",
   "seasonalityPeriod", "noiseAmount", "categories", "rng", "seed"}

NoOpts == [f \in Fields |-> Undef]

DefaultCategories == Arr(<<Str("fixtures"), Str("furniture"), Str("appliances")>>)

\* the defaults with a count of 12
Defaults_count12 ==
  [count |-> Num(12), startDate |-> DateStr(2024, 0, 1), baseValue |-> Num(9000),
   trendPerMonth |-> Num(2500), seasonalityAmplitude |-> Num(3600),
   seasonalityPeriod |-> Num(12), noiseAmount |-> Num(800),
   categories |-> DefaultCategories, rng |-> MathRandom, seed |-> Undef]

Defaults ==
  [count |-> Num(24), startDate |-> DateStr(2024, 0, 1), baseValue |-> Num(9000),
   trendPerMonth |-> Num(2500), seasonalityAmplitude |-> Num(3600),
   seasonalityPeriod |-> Num(12), noiseAmount |-> Num(800),
   categories |-> DefaultCategories, rng |-> MathRandom, seed |-> Undef]

\* a destructuring that builds a seeded source from opts.seed when no rng is
\* given
Destructure_seedsRng(opts) ==
  [f \in Fields |->
     IF Defined(opts[f]) THEN opts[f]
     ELSE IF f = "rng" /\ Defined(opts.seed) THEN SeededDesc(1)
     ELSE Defaults[f]]

\* the destructuring of opts with its defaults
Destructure(opts) ==
  [f \in Fields |-> IF Defined(opts[f]) THEN opts[f] ELSE Defaults[f]]

\* Math.trunc of a number in thousandths
Trunc(m) == IF m >= 0 THEN m \div 1000 ELSE -((-m) \div 1000)

\* Math.max(0, Math.trunc(count || 0)); a count that is no number gives NaN
\* or 0, and the loop then runs no step
numPoints_inclusive(count) == IF IsNum(count) THEN Max(0, Trunc(count.milli)) + 1 ELSE 0

numPoints_atLeastOne(count) == IF IsNum(count) THEN Max(1, Trunc(count.milli)) ELSE 0

numPoints(count) == IF IsNum(count) THEN Max(0, Trunc(count.milli)) ELSE 0

\* 1000 * sin(15 degrees * k), k = 0..23
Sin15 ==
  <<0, 259, 500, 707, 866, 966, 1000, 966, 866, 707, 500, 259,
    0, -259, -500, -707, -866, -966, -1000, -966, -866, -707, -500, -259>>

\* Math.sin((2 * Math.PI * i) / seasonalityPeriod), in thousandths
SinMilli(i, period) == Sin15[(((i * 24000) \div period.milli) % 24) + 1]

\* Math.round of a number in thousandths: the nearest integer, a half going up
Round(m) == (m + 500) \div 1000

RawSales_trendFromOne(cfg, i, r) ==
  cfg.baseValue.milli + cfg.trendPerMonth.milli * (i + 1)
    + MulMilli(cfg.seasonalityAmplitude.milli, SinMilli(i, cfg.seasonalityPeriod))
    + MulMilli(cfg.noiseAmount.milli, (r - 500) * 2)

\* the sum with a noise of r * 2 * noiseAmount, not centred on 0
RawSales_noiseFromZero(cfg, i, r) ==
  LET trendValue == cfg.trendPerMonth.milli * i
      seasonalityValue ==
        MulMilli(cfg.seasonalityAmplitude.milli, SinMilli(i, cfg.seasonalityPeriod))
      noiseValue == MulMilli(cfg.noiseAmount.milli, r * 2)
  IN cfg.baseValue.milli + trendValue + seasonalityValue + noiseValue

\* the sum baseValue + trendValue + seasonalityValue + noiseValue at step i
\* with noise draw r
RawSales(cfg, i, r) ==
  LET trendValue == cfg.trendPerMonth.milli * i
      seasonalityValue ==
        MulMilli(cfg.seasonalityAmplitude.milli, SinMilli(i, cfg.seasonalityPeriod))
      noiseValue == MulMilli(cfg.noiseAmount.milli, (r - 500) * 2)
  IN cfg.baseValue.milli + trendValue + seasonalityValue + noiseValue

SalesOf_unclamped(raw) == Round(raw)

\* Math.max(0, Math.round(sales))
SalesOf(raw) == Max(0, Round(raw))

CategoryIndex_round(r, n) == (r * n + 500) \div 1000

\* Math.floor(rng() * categories.length), for draw r
CategoryIndex(r, n) == (r * n) \div 1000

\* items[k] of a JavaScript array: undefined outside 0..length-1
At(items, k) == IF k + 1 \in DOMAIN items THEN items[k + 1] ELSE Undef

\* currentDate of step i
CurrentDate(start, i) == SetUTCMonth(start, start.m + i)

\* the record pushed at step i, r1 being the noise draw and r2 the
\* category draw
\* the record of step i with the first draw used for the category and the
\* second for the noise
MakeRecord_categoryFirst(cfg, i, r1, r2) ==
  LET currentDate == CurrentDate(NewDate(cfg.startDate), i)
      items == cfg.categories.items
  IN [date |-> [t |-> "string", chars |-> ToISODate(currentDate)],
      sales |-> Num(SalesOf(RawSales(cfg, i, r2))),
      category |-> At(items, CategoryIndex(r1, Len(items))),
      index |-> Num(i),
      _date |-> [t |-> "Date", time |-> TimeValue(currentDate)]]

MakeRecord(cfg, i, r1, r2) ==
  LET currentDate == CurrentDate(NewDate(cfg.startDate), i)
      items == cfg.categories.items
  IN [date |-> [t |-> "string", chars |-> ToISODate(currentDate)],
      sales |-> Num(SalesOf(RawSales(cfg, i, r1))),
      category |-> At(items, CategoryIndex(r2, Len(items))),
      index |-> Num(i),
      _date |-> [t |-> "Date", time |-> TimeValue(currentDate)]]

(************************ the other generators *****************************)
\* generateMonthlySalesData of notebook_cells.js, which does not validate,
\* run on the values `draws` the random source returns: the Error thrown
\* ("" if none) and the array returned
generateMonthlySalesData_notebook(opts, draws) ==
  LET cfg == Destructure(opts)
      n == numPoints(cfg.count)
  IN IF IsInvalidDate(NewDate(cfg.startDate))
     THEN [thrown |-> "Invalid start date", data |-> <<>>]
     ELSE [thrown |-> "",
           data |-> [k \in 1..n |-> MakeRecord(cfg, k - 1, draws[2 * k - 1], draws[2 * k])]]

\* Math.max(0, Math.trunc(count ?? 0)) of the TypeScript generator
numPoints_typed(count) == IF IsNum(count) THEN Max(0, Trunc(count.milli)) ELSE 0

\* a record of the TypeScript generator with Math.round(sales) not clamped
GeneratedRecord_unclamped(cfg, i, r1, r2) ==
  LET currentDate == CurrentDate(NewDate(cfg.startDate), i)
      items == cfg.categories.items
  IN [date |-> [t |-> "string", chars |-> ToISODate(currentDate)],
      sales |-> Num(Round(RawSales(cfg, i, r1))),
      category |-> At(items, CategoryIndex(r2, Len(items)))]

\* the record the TypeScript generator pushes at step i: date, sales and
\* category only
GeneratedRecord(cfg, i, r1, r2) ==
  LET currentDate == CurrentDate(NewDate(cfg.startDate), i)
      items == cfg.categories.items
  IN [date |-> [t |-> "string", chars |-> ToISODate(currentDate)],
      sales |-> Num(Max(0, Round(RawSales(cfg, i, r1)))),
      category |-> At(items, CategoryIndex(r2, Len(items)))]

\* generateMonthlySalesData of the TypeScript module: no validation and no
\* test of the start date
generateMonthlySalesData_typed(options, draws) ==
  LET cfg == Destructure(options)
      n == numPoints_typed(cfg.count)
  IN [k \in 1..n |-> GeneratedRecord(cfg, k - 1, draws[2 * k - 1], draws[2 * k])]

(****************************** inputs *************************************)
With(o, f, v) == [o EXCEPT ![f] = v]

\* baseValue, trendPerMonth, seasonalityAmplitude, seasonalityPeriod and
\* noiseAmount together
Shape(o, b, tr, a, p, n) ==
  [o EXCEPT !.baseValue = b, !.trendPerMonth = tr, !.seasonalityAmplitude = a,
            !.seasonalityPeriod = p, !.noiseAmount = n]

Shapes ==
  { <<Num(1000), Num(100), Num(0), Undef, Num(0)>>,
    <<Num(0), Num(-100000), Num(0), Num(1), Num(0)>>,
    <<Num(1000000), Num(100000), Num(100000), Num(24), Num(100000)>>,
    <<Num(1), Num(0), Num(3), Milli(1500), Num(0)>>,
    <<Milli(500), Num(0), Num(0), Num(12), Num(1)>>,
    <<Num(2), Num(-1), Num(0), Num(12), Num(3)>>,
    <<Undef, Undef, Undef, Undef, Undef>> }

Counts == {Num(k) : k \in 0..MaxCount}

StartDates ==
  { DateStr(2024, 0, 31), DateStr(2023, 0, 29), DateStr(2023, 10, 15),
    DateStr(2100, 11, 31), DateStr(1900, 2, 30), DateStr(2024, 4, 31) }

CategoryLists ==
  { Arr(<<Str("x")>>), Arr(<<Str("a"), Str("b")>>),
    Arr(<<Str("a"), Str("b"), Str("c")>>),
    Arr(<<Str("x,y"), Str("z")>>), Arr(<<Str("a\nb")>>) }

RngSources == {MathRandom, ConstRng(100)} \cup {SeededDesc(s) : s \in Seeds}

\* configs varying the start date
DateOpts ==
  { [Shape(NoOpts, Num(1000), Num(100), Num(0), Undef, Num(0))
       EXCEPT !.count = c, !.startDate = sd, !.categories = Arr(<<Str("x")>>),
              !.rng = ConstRng(100)] :
    c \in Counts, sd \in StartDates }

\* configs varying the numeric options and the random source
ShapeOpts ==
  { [Shape(NoOpts, sh[1], sh[2], sh[3], sh[4], sh[5])
       EXCEPT !.count = c, !.categories = Arr(<<Str("a"), Str("b")>>), !.rng = r] :
    sh \in Shapes, c \in Counts, r \in RngSources \cup {Undef} }

\* configs varying the categories
CategoryOpts ==
  { [Shape(NoOpts, Num(1000), Num(100), Num(0), Undef, Num(0))
       EXCEPT !.count = c, !.categories = cats, !.rng = r] :
    c \in Counts, cats \in CategoryLists \cup {Undef}, r \in RngSources }

\* configs with every option left out, or only the count
DefaultOpts == {NoOpts, With(NoOpts, "rng", ConstRng(100)), With(NoOpts, "count", Num(2))}

\* values on, just inside and just outside each bound, and values that are
\* no number
CountValues ==
  { Undef, Num(0), Num(120), Num(-1), Num(121), Milli(1500), Milli(-500),
    Milli(120500), NaN, Str("12") }
BaseValues == {Undef, Num(0), Num(1000000), Num(-100), Milli(-1), Milli(1000000001), NaN}
TrendValues == {Num(-100000), Num(100000), Milli(-100000001), Milli(100000001), Str("up")}
AmplitudeValues == {Num(0), Num(100000), Milli(-1), Milli(100000001), NaN}
PeriodValues == {Undef, Num(1), Num(24), Num(0), Milli(999), Milli(24001), Str("12")}
NoiseValues == {Num(0), Num(100000), Milli(-1), Milli(100000001), NaN}
CategoryValues ==
  { Undef, Arr(<<Str("x")>>), Arr(<<>>), NotArr, Arr(<<Str("a"), Str("a")>>),
    Arr(<<Str("a"), Num(7)>>), Arr(<<Num(7), Num(7)>>) }
StartDateValues == {Undef, DateStr(2024, 0, 31), BadDateStr, DateStr(1899, 11, 31), DateStr(2101, 0, 1)}
RngValues == {ConstRng(100), NotFn}

\* configs on and across the validation bounds, several options at once
BoundOpts ==
  { [NoOpts EXCEPT !.count = c, !.baseValue = b, !.seasonalityPeriod = p,
                   !.categories = cats, !.startDate = sd, !.rng = r] :
    c \in CountValues, b \in BaseValues, p \in PeriodValues,
    cats \in CategoryValues, sd \in StartDateValues, r \in RngValues }

\* configs on and across the bounds of the trend, the amplitude and the noise
BoundOpts2 ==
  { [NoOpts EXCEPT !.count = Num(2), !.trendPerMonth = tr, !.seasonalityAmplitude = a,
                   !.noiseAmount = n, !.rng = ConstRng(100)] :
    tr \in TrendValues, a \in AmplitudeValues, n \in NoiseValues }

Preset(b, tr, p, a, n) ==
  [NoOpts EXCEPT !.count = Num(24), !.baseValue = Num(b), !.trendPerMonth = Num(tr),
                 !.seasonalityPeriod = Num(p), !.seasonalityAmplitude = Num(a),
                 !.noiseAmount = Num(n), !.seed = Num(42)]

\* the exported presets
presets ==
  [default |-> Preset(9000, 2500, 12, 3600, 800),
   highSeasonality |-> Preset(10000, 1000, 12, 8000, 500),
   strongTrend |-> Preset(5000, 4000, 12, 2000, 500),
   highVolatility |-> Preset(10000, 1500, 6, 4000, 2000),
   stable |-> Preset(10000, 500, 12, 1000, 300),
   quarterly |-> Preset(8000, 1000, 3, 3000, 600)]

\* each preset passed as the options
PresetOpts == {presets[name] : name \in DOMAIN presets}

\* configs that validation rejects, with each kind of random source
RejectedOpts ==
  { [NoOpts EXCEPT !.count = c, !.startDate = sd, !.rng = r] :
    c \in {Num(-1), Num(121), Milli(1500), Num(2)}, sd \in {BadDateStr, DateStr(1899, 11, 31)},
    r \in RngSources }

\* the seed property a caller may add to the options
SeedValues == {Undef, Num(42), Num(7)}

\* the default preset cut to 1 or 2 records, with or without its seed and
\* with each kind of random source
SeedOpts ==
  { [presets.default EXCEPT !.count = Num(1), !.seed = sd, !.rng = r] :
    sd \in {Undef, Num(42)}, r \in {Undef, ConstRng(100), SeededDesc(1)} }
  \cup { [presets.default EXCEPT !.count = Num(2), !.seed = sd, !.rng = r] :
          sd \in {Undef, Num(42)}, r \in {ConstRng(100), SeededDesc(1)} }

\* configs of a pure trend on one category, small enough to be analyzed
TrendOpts ==
  { [NoOpts EXCEPT !.count = c, !.baseValue = b, !.trendPerMonth = tr,
                   !.seasonalityAmplitude = Num(0), !.noiseAmount = Num(0),
                   !.categories = Arr(<<Str("x")>>), !.rng = ConstRng(100)] :
    c \in {Num(2), Num(3)}, b \in {Num(2), Num(10)},
    tr \in {Num(-2), Num(-1), Num(0), Milli(500), Num(5), Num(20)} }

Configs ==
  DateOpts \cup ShapeOpts \cup CategoryOpts \cup DefaultOpts \cup BoundOpts \cup BoundOpts2
    \cup TrendOpts \cup PresetOpts \cup RejectedOpts \cup SeedOpts

(************************* numbers of the analyzer *************************)
\* a finite number is a fraction n/d in lowest terms with d > 0; a division
\* by zero gives NaN (0/0) or an infinity
RECURSIVE GCD(_, _)
GCD(a, b) == IF b = 0 THEN a ELSE GCD(b, a % b)
Abs(a) == IF a < 0 THEN -a ELSE a

Q(n, d) ==
  LET g == GCD(Abs(n), Abs(d))
      sg == IF d < 0 THEN -1 ELSE 1
  IN [t |-> "number", n |-> sg * (n \div g), d |-> sg * (d \div g)]
QInt(n) == [t |-> "number", n |-> n, d |-> 1]
Infinity(sign) == [t |-> "Infinity", sign |-> sign]
Sign(n) == IF n < 0 THEN -1 ELSE IF n > 0 THEN 1 ELSE 0

QNeg(a) ==
  IF a.t = "NaN" THEN NaN
  ELSE IF a.t = "Infinity" THEN Infinity(-a.sign)
  ELSE [a EXCEPT !.n = -a.n]

QAdd(a, b) ==
  IF a.t = "NaN" \/ b.t = "NaN" THEN NaN
  ELSE IF a.t = "Infinity" /\ b.t = "Infinity"
  THEN (IF a.sign = b.sign THEN a ELSE NaN)
  ELSE IF a.t = "Infinity" THEN a
  ELSE IF b.t = "Infinity" THEN b
  ELSE LET l == (a.d \div GCD(a.d, b.d)) * b.d
       IN Q(a.n * (l \div a.d) + b.n * (l \div b.d), l)

QSub(a, b) == QAdd(a, QNeg(b))

QMul(a, b) ==
  IF a.t = "NaN" \/ b.t = "NaN" THEN NaN
  ELSE IF a.t = "Infinity" \/ b.t = "Infinity"
  THEN LET sa == IF a.t = "Infinity" THEN a.sign ELSE Sign(a.n)
           sb == IF b.t = "Infinity" THEN b.sign ELSE Sign(b.n)
       IN IF sa * sb = 0 THEN NaN ELSE Infinity(sa * sb)
  ELSE LET g1 == GCD(Abs(a.n), b.d)
           g2 == GCD(Abs(b.n), a.d)
       IN Q((a.n \div g1) * (b.n \div g2), (a.d \div g2) * (b.d \div g1))

QDiv(a, b) ==
  IF a.t = "NaN" \/ b.t = "NaN" THEN NaN
  ELSE IF b.t = "Infinity" THEN (IF a.t = "Infinity" THEN NaN ELSE QInt(0))
  ELSE IF a.t = "Infinity"
  THEN Infinity(IF b.n < 0 THEN -a.sign ELSE a.sign)
  ELSE IF b.n = 0
  THEN (IF a.n = 0 THEN NaN ELSE Infinity(Sign(a.n)))
  ELSE QMul(a, Q(b.d, b.n))

RECURSIVE QSum(_)
\* d3.sum of an array of numbers
QSum(seq) == IF seq = <<>> THEN QInt(0) ELSE QAdd(Head(seq), QSum(Tail(seq)))

\* the value of a sales number held in thousandths (NaN for what is no
\* finite number)
QOfMilli(v) == IF v.t = "number" THEN Q(v.milli, 1000) ELSE NaN

(****************************** validateData *******************************)
Thrown(message, row) == [message |-> message, row |-> row]
NoThrow == Thrown("", -1)

\* /^\d{4}-\d{2}-\d{2}$/ on a sequence of characters
MatchesDate(chars) ==
  /\ Len(chars) = 10
  /\ \A k \in 1..10 :
       IF k \in {5, 8} THEN chars[k] = "-" ELSE chars[k] \in Range(Digits)

required == <<"date", "category", "sales">>

\* the check of one row without the isNaN test on sales
rowError_typeofOnly(row, k) ==
  IF "date" \notin DOMAIN row THEN Thrown("Missing required field 'date'", k)
  ELSE IF "category" \notin DOMAIN row THEN Thrown("Missing required field 'category'", k)
  ELSE IF "sales" \notin DOMAIN row THEN Thrown("Missing required field 'sales'", k)
  ELSE IF Typeof(row.sales) # "number" THEN Thrown("Invalid sales value", k)
  ELSE IF row.date.t # "string" THEN Thrown("TypeError: row.date.match is not a function", k)
  ELSE IF ~MatchesDate(row.date.chars) THEN Thrown("Invalid date format", k)
  ELSE NoThrow

\* the check of one row: the Error it throws, or NoThrow
rowError(row, k) ==
  IF "date" \notin DOMAIN row THEN Thrown("Missing required field 'date'", k)
  ELSE IF "category" \notin DOMAIN row THEN Thrown("Missing required field 'category'", k)
  ELSE IF "sales" \notin DOMAIN row THEN Thrown("Missing required field 'sales'", k)
  ELSE IF Typeof(row.sales) # "number" \/ row.sales.t = "NaN"
  THEN Thrown("Invalid sales value", k)
  ELSE IF row.date.t # "string" THEN Thrown("TypeError: row.date.match is not a function", k)
  ELSE IF ~MatchesDate(row.date.chars) THEN Thrown("Invalid date format", k)
  ELSE NoThrow

\* validateData(data): the Error thrown, or NoThrow when it returns
validateData(data) ==
  IF data.t # "array" THEN Thrown("data must be an array", -1)
  ELSE IF Len(data.items) = 0 THEN Thrown("data array cannot be empty", -1)
  ELSE LET bad == {k \in DOMAIN data.items : rowError(data.items[k], k - 1) # NoThrow}
       IN IF bad = {} THEN NoThrow
          ELSE LET first == CHOOSE k \in bad : \A j \in bad : k <= j
               IN rowError(data.items[first], first - 1)

(****************************** analyzeTrends ******************************)
Null == [t |-> "null"]

RECURSIVE GroupKeys(_)
\* the keys of d3.group(data, d => d.category), in order of first appearance
GroupKeys(items) ==
  IF items = <<>> THEN <<>>
  ELSE LET front == GroupKeys(SubSeq(items, 1, Len(items) - 1))
           cat == items[Len(items)].category
       IN IF cat \in Range(front) THEN front ELSE Append(front, cat)

\* the points grouped under cat, in input order
Points(items, cat) == SelectSeq(items, LAMBDA row : row.category = cat)

HasDate(row) == "_date" \in DOMAIN row

\* the comparator (a, b) => a._date - b._date; a NaN result counts as 0
CompareDates(a, b) ==
  IF HasDate(a) /\ HasDate(b) THEN a._date.time - b._date.time ELSE 0

RECURSIVE InsertPoint(_, _)
\* x inserted behind the last element that does not compare above it
InsertPoint(sorted, x) ==
  IF sorted = <<>> THEN <<x>>
  ELSE IF CompareDates(sorted[Len(sorted)], x) > 0
  THEN Append(InsertPoint(SubSeq(sorted, 1, Len(sorted) - 1), x), sorted[Len(sorted)])
  ELSE Append(sorted, x)

RECURSIVE SortPoints(_)
\* points.slice().sort(comparator): a stable sort of a copy
SortPoints(points) ==
  IF points = <<>> THEN <<>>
  ELSE InsertPoint(SortPoints(SubSeq(points, 1, Len(points) - 1)), points[Len(points)])

TooFewPoints_none(sorted) == Len(sorted) < 1

\* sorted.length < 2
TooFewPoints(sorted) == Len(sorted) < 2

\* n * sx2 - sx * sx for the ranks x = 0..n-1 of a group of n records
RankDenominator(n) ==
  LET x == [k \in 1..n |-> QInt(k - 1)]
      sx == QSum(x)
      sx2 == QSum([k \in 1..n |-> QMul(x[k], x[k])])
  IN QSub(QMul(QInt(n), sx2), QMul(sx, sx))

\* the regression with ranks counted from 1
Regression_ranksFromOne(sorted) ==
  LET n == Len(sorted)
      x == [k \in 1..n |-> QInt(k)]
      y == [k \in 1..n |-> QOfMilli(sorted[k].sales)]
      qn == QInt(n)
      sx == QSum(x)
      sy == QSum(y)
      sxy == QSum([k \in 1..n |-> QMul(x[k], y[k])])
      sx2 == QSum([k \in 1..n |-> QMul(x[k], x[k])])
      slope == QDiv(QSub(QMul(qn, sxy), QMul(sx, sy)), QSub(QMul(qn, sx2), QMul(sx, sx)))
      intercept == QDiv(QSub(sy, QMul(slope, sx)), qn)
      predicted == [k \in 1..n |-> QAdd(QMul(slope, x[k]), intercept)]
      mean == QDiv(sy, qn)
      ssRes == QSum([k \in 1..n |-> QMul(QSub(y[k], predicted[k]), QSub(y[k], predicted[k]))])
      ssTot == QSum([k \in 1..n |-> QMul(QSub(y[k], mean), QSub(y[k], mean))])
      r2 == QSub(QInt(1), QDiv(ssRes, ssTot))
  IN [slope |-> slope, intercept |-> intercept, r2 |-> r2]

\* the regression with every rank 0
Regression_constantRank(sorted) ==
  LET n == Len(sorted)
      x == [k \in 1..n |-> QInt(0)]
      y == [k \in 1..n |-> QOfMilli(sorted[k].sales)]
      qn == QInt(n)
      sx == QSum(x)
      sy == QSum(y)
      sxy == QSum([k \in 1..n |-> QMul(x[k], y[k])])
      sx2 == QSum([k \in 1..n |-> QMul(x[k], x[k])])
      slope == QDiv(QSub(QMul(qn, sxy), QMul(sx, sy)), QSub(QMul(qn, sx2), QMul(sx, sx)))
      intercept == QDiv(QSub(sy, QMul(slope, sx)), qn)
      predicted == [k \in 1..n |-> QAdd(QMul(slope, x[k]), intercept)]
      mean == QDiv(sy, qn)
      ssRes == QSum([k \in 1..n |-> QMul(QSub(y[k], predicted[k]), QSub(y[k], predicted[k]))])
      ssTot == QSum([k \in 1..n |-> QMul(QSub(y[k], mean), QSub(y[k], mean))])
      r2 == QSub(QInt(1), QDiv(ssRes, ssTot))
  IN [slope |-> slope, intercept |-> intercept, r2 |-> r2]

\* slope, intercept and r2 of the regression of sales on the rank
Regression(sorted) ==
  LET n == Len(sorted)
      x == [k \in 1..n |-> QInt(k - 1)]
      y == [k \in 1..n |-> QOfMilli(sorted[k].sales)]
      qn == QInt(n)
      sx == QSum(x)
      sy == QSum(y)
      sxy == QSum([k \in 1..n |-> QMul(x[k], y[k])])
      sx2 == QSum([k \in 1..n |-> QMul(x[k], x[k])])
      slope == QDiv(QSub(QMul(qn, sxy), QMul(sx, sy)), QSub(QMul(qn, sx2), QMul(sx, sx)))
      intercept == QDiv(QSub(sy, QMul(slope, sx)), qn)
      predicted == [k \in 1..n |-> QAdd(QMul(slope, x[k]), intercept)]
      mean == QDiv(sy, qn)
      ssRes == QSum([k \in 1..n |-> QMul(QSub(y[k], predicted[k]), QSub(y[k], predicted[k]))])
      ssTot == QSum([k \in 1..n |-> QMul(QSub(y[k], mean), QSub(y[k], mean))])
      r2 == QSub(QInt(1), QDiv(ssRes, ssTot))
  IN [slope |-> slope, intercept |-> intercept, r2 |-> r2]

\* the value stored under a category
GroupResult(items, cat) ==
  LET sorted == SortPoints(Points(items, cat))
  IN IF TooFewPoints(sorted) THEN Null ELSE Regression(sorted)

\* the property key a category becomes in res[cat]
KeyOf(cat) ==
  IF cat.t = "string" THEN cat.s
  ELSE IF cat.t = "number" /\ cat.milli = 7000 THEN "7"
  ELSE cat.t

\* res after the loop over the groups: a later group overwrites an earlier
\* one that has the same property key
ResOf(items) ==
  LET keys == GroupKeys(items)
      last(p) == CHOOSE k \in DOMAIN keys :
                   /\ KeyOf(keys[k]) = p
                   /\ \A j \in DOMAIN keys : KeyOf(keys[j]) = p => j <= k
  IN [p \in {KeyOf(keys[k]) : k \in DOMAIN keys} |-> GroupResult(items, keys[last(p)])]

\* analyzeTrends(data): the Error thrown (NoThrow if none), the object
\* returned, and the array data as the call leaves it; the sort works on
\* points.slice(), and nothing is assigned to data or to its records
\* analyzeTrends sorting the array it was given instead of a copy
analyzeTrends_sortsInput(data) ==
  LET invalid == validateData(data)
  IN IF invalid # NoThrow THEN [thrown |-> invalid, res |-> <<>>, data |-> data]
     ELSE IF Len(data.items) < 2
     THEN [thrown |-> Thrown("Need at least 2 data points for trend analysis", -1),
           res |-> <<>>, data |-> data]
     ELSE [thrown |-> NoThrow, res |-> ResOf(data.items),
           data |-> Arr(SortPoints(data.items))]

analyzeTrends(data) ==
  LET invalid == validateData(data)
  IN IF invalid # NoThrow THEN [thrown |-> invalid, res |-> <<>>, data |-> data]
     ELSE IF Len(data.items) < 2
     THEN [thrown |-> Thrown("Need at least 2 data points for trend analysis", -1),
           res |-> <<>>, data |-> data]
     ELSE [thrown |-> NoThrow, res |-> ResOf(data.items), data |-> data]

(******************************* dataToCSV *********************************)
\* the characters of the strings used as labels
LabelChars ==
  [a |-> <<"a">>, b |-> <<"b">>, c |-> <<"c">>, x |-> <<"x">>, z |-> <<"z">>,
   fixtures |-> <<"f", "i", "x", "t", "u", "r", "e", "s">>,
   furniture |-> <<"f", "u", "r", "n", "i", "t", "u", "r", "e">>,
   appliances |-> <<"a", "p", "p", "l", "i", "a", "n", "c", "e", "s">>]
  @@ ("x,y" :> <<"x", ",", "y">>) @@ ("a\nb" :> <<"a", "\n", "b">>)
  @@ ("7" :> <<"7">>) @@ ("" :> <<>>)

RECURSIVE NatChars(_)
\* the decimal numeral of a natural number
NatChars(n) == IF n < 10 THEN <<Digit(n)>> ELSE Append(NatChars(n \div 10), Digit(n % 10))

\* the decimals of f thousandths, without trailing zeros
FractionChars(f) ==
  IF f % 100 = 0 THEN <<Digit(f \div 100)>>
  ELSE IF f % 10 = 0 THEN <<Digit(f \div 100), Digit((f \div 10) % 10)>>
  ELSE <<Digit(f \div 100), Digit((f \div 10) % 10), Digit(f % 10)>>

\* String(v) of a number held in thousandths
NumberChars(m) ==
  LET abs == IF m < 0 THEN -m ELSE m
  IN (IF m < 0 THEN <<"-">> ELSE <<>>)
       \o NatChars(abs \div 1000)
       \o (IF abs % 1000 = 0 THEN <<>> ELSE <<".">> \o FractionChars(abs % 1000))

\* the string Array.prototype.join makes of an element: empty for undefined
\* and null
JoinString(v) ==
  IF v.t = "string" THEN (IF "chars" \in DOMAIN v THEN v.chars ELSE LabelChars[v.s])
  ELSE IF v.t = "number" THEN NumberChars(v.milli)
  ELSE IF v.t = "NaN" THEN <<"N", "a", "N">>
  ELSE <<>>

RECURSIVE Join(_, _)
\* parts.join(sep), parts being sequences of characters
Join(parts, sep) ==
  IF parts = <<>> THEN <<>>
  ELSE IF Len(parts) = 1 THEN parts[1]
  ELSE parts[1] \o sep \o Join(Tail(parts), sep)

headers == <<<<"d", "a", "t", "e">>, <<"c", "a", "t", "e", "g", "o", "r", "y">>,
             <<"s", "a", "l", "e", "s">>>>

\* [r.date, r.category, r.sales].join(',')
\* a line written with the sales first
CsvLine_salesFirst(r) ==
  Join(<<JoinString(r.sales), JoinString(r.date), JoinString(r.category)>>, <<",">>)

CsvLine(r) == Join(<<JoinString(r.date), JoinString(r.category), JoinString(r.sales)>>, <<",">>)

\* dataToCSV(data): the Error thrown (NoThrow if none) and the text returned
\* dataToCSV without the header line
dataToCSV_noHeader(data) ==
  LET invalid == validateData(data)
  IN IF invalid # NoThrow THEN [thrown |-> invalid, text |-> <<>>, data |-> data]
     ELSE [thrown |-> NoThrow, data |-> data,
           text |-> Join([k \in DOMAIN data.items |-> CsvLine(data.items[k])], <<"\n">>)]

\* dataToCSV(data): the Error thrown (NoThrow if none), the text returned,
\* and the array data as the call leaves it
dataToCSV(data) ==
  LET invalid == validateData(data)
  IN IF invalid # NoThrow THEN [thrown |-> invalid, text |-> <<>>, data |-> data]
     ELSE [thrown |-> NoThrow, data |-> data,
           text |-> Join(<<Join(headers, <<",">>)>>
                           \o [k \in DOMAIN data.items |-> CsvLine(data.items[k])],
                         <<"\n">>)]

(************************** analyzer inputs ********************************)
\* largest number of records in a hand-made analyzer input
MaxRows == 3
\* largest sales value of a generated series that is analyzed
SalesCap == 50

Jan(day) == YMD(2024, 0, day)

\* a record with date, category and sales only
Row(day, cat, sales) ==
  [date |-> [t |-> "string", chars |-> ToISODate(Jan(day))], category |-> cat,
   sales |-> Num(sales)]

\* the same record as the generator builds it, with index and _date
FullRow(day, cat, sales) ==
  [date |-> [t |-> "string", chars |-> ToISODate(Jan(day))], category |-> cat,
   sales |-> Num(sales), index |-> Num(day - 1),
   _date |-> [t |-> "Date", time |-> TimeValue(Jan(day))]]

PlainRows == {Row(day, cat, sales) : day \in {1, 2}, cat \in {Str("a"), Str("b")}, sales \in {0, 5, 9}}
FullRows ==
  {FullRow(day, cat, sales) : day \in {1, 2}, cat \in {Str("a"), Str("b")}, sales \in {0, 5, 9}}

SeqsUpTo(S, n) == UNION {[1..k -> S] : k \in 1..n}

WellFormedInputs == {Arr(rows) : rows \in SeqsUpTo(PlainRows, MaxRows) \cup SeqsUpTo(FullRows, MaxRows)}

BadRows ==
  { [category |-> Str("a"), sales |-> Num(5)],
    [date |-> [t |-> "string", chars |-> ToISODate(Jan(1))], sales |-> Num(5)],
    [date |-> [t |-> "string", chars |-> ToISODate(Jan(1))], category |-> Str("a")],
    [date |-> [t |-> "string", chars |-> ToISODate(Jan(1))], category |-> Str("a"), sales |-> NaN],
    [date |-> [t |-> "string", chars |-> ToISODate(Jan(1))], category |-> Str("a"),
     sales |-> Str("5")],
    [date |-> [t |-> "string", chars |-> <<"2", "0", "2", "4", "/", "0", "1", "/", "0", "1">>],
     category |-> Str("a"), sales |-> Num(5)],
    [date |-> [t |-> "string", chars |-> <<"2", "0", "2", "4", "-", "1", "-", "1">>],
     category |-> Str("a"), sales |-> Num(5)],
    [date |-> Num(2024), category |-> Str("a"), sales |-> Num(5)] }

MalformedInputs ==
  {NotArr, Arr(<<>>)}
    \cup {Arr(<<bad>>) : bad \in BadRows}
    \cup {Arr(<<Row(1, Str("a"), 5), bad>>) : bad \in BadRows}
    \cup {Arr(<<bad, Row(1, Str("a"), 5), Row(2, Str("a"), 9)>>) : bad \in BadRows}

\* a date string that has the pattern of a date
OddDate(chars) == [t |-> "string", chars |-> chars]

\* records that pass validateData although a field is unusual: a date that
\* is no calendar date, a category that is no plain label, a sales that is
\* no non-negative integer
QuirkRows ==
  { [date |-> OddDate(<<"2", "0", "2", "4", "-", "1", "3", "-", "4", "5">>),
     category |-> Str("a"), sales |-> Num(5)],
    [date |-> OddDate(<<"2", "0", "2", "3", "-", "0", "2", "-", "3", "0">>),
     category |-> Str("a"), sales |-> Num(9)] }
  \cup {Row(1, cat, 5) : cat \in {Str("x,y"), Str("a\nb"), Str(""), Str("7"), Num(7), Undef}}
  \cup {[Row(2, Str("a"), 0) EXCEPT !.sales = v] : v \in {Milli(500), Milli(50), Num(-5), Milli(-1250)}}

QuirkInputs == {Arr(rows) : rows \in SeqsUpTo(QuirkRows \cup {Row(1, Str("a"), 5)}, 2)}

\* the generated series small enough to be analyzed
Analyzable(rows) == \A k \in DOMAIN rows : rows[k].sales.milli <= SalesCap * 1000

(************************* example component *******************************)
\* most calls of one seeded closure
MaxLcgCalls == 3

\* the closures seededRNG built, each with a seed variable of its own
Closures == {1, 2}

\* values of params.seed: the seeds 1..100 of the slider, the ends of the
\* range, and seeds whose successor is an end of the range
ExampleSeeds ==
  (1..100) \cup {306783378, 739806647, 1407677000, 2147483645, 2147483646}

RECURSIVE MulMod(_, _, _)
\* (a * b) % m for 0 <= b < m, by doubling, so that no intermediate value
\* leaves 32 bits; the JavaScript product is below 2^53 and exact
MulMod(a, b, m) ==
  IF a = 0 THEN 0
  ELSE LET half == MulMod(a \div 2, b, m)
           twice == IF half >= m - half THEN half - (m - half) ELSE half + half
       IN IF a % 2 = 0 THEN twice
          ELSE IF twice >= m - b THEN twice - (m - b) ELSE twice + b

\* the step with the modulus 2147483646
NextSeed_evenModulus(s) == MulMod(16807, s % 2147483646, 2147483646)

\* seed = (seed * 16807) % 2147483647
NextSeed(s) == MulMod(16807, s, 2147483647)

\* let seed = params.seed; const seededRNG = () => ...
NewSeededRNG(g) ==
  /\ exPc[g] = "idle"
  /\ \E s \in ExampleSeeds :
       /\ exStart' = [exStart EXCEPT ![g] = s]
       /\ exSeed' = [exSeed EXCEPT ![g] = s]
  /\ exPc' = [exPc EXCEPT ![g] = "ready"]
  /\ UNCHANGED <<exOuts, genVars, anaVars, csvVars, appVars>>

\* one call of seededRNG: the value returned is (seed - 1) / 2147483646
seededRNG(g) ==
  /\ exPc[g] = "ready"
  /\ Len(exOuts[g]) < MaxLcgCalls
  /\ exSeed' = [exSeed EXCEPT ![g] = NextSeed(exSeed[g])]
  /\ exOuts' = [exOuts EXCEPT ![g] = Append(@, NextSeed(exSeed[g]) - 1)]
  /\ UNCHANGED <<exPc, exStart, genVars, anaVars, csvVars, appVars>>

NextExample ==
  \/ \E g \in Closures : NewSeededRNG(g)
  \/ \E g \in Closures : seededRNG(g)

(********************************* App *************************************)
\* most runs of handleGenerate
MaxRuns == 3

\* a config, named by its functionName
DEFAULT_CONFIG == "generateSampleData"

\* the configs the panel may set: the default one and two presets
AppConfigs == {DEFAULT_CONFIG, "generateLinearGrowthData", "generateEventData"}

\* the text a resolved generateDataFunction(config) may carry: a function
\* of the name asked for, some other text, or nothing after the trim
CodesFor(cfg) == {cfg, "other", ""}

\* the error state null
NoMessage == "null"

FailureMessage == "Failed to generate code. Please check your API key and try again."

\* a click that starts a run without setting isLoading
Click_noLoading ==
  /\ ~disabled
  /\ runs < MaxRuns
  /\ error' = NoMessage
  /\ inFlight' = inFlight + 1
  /\ codeAtStart' = generatedCode
  /\ outcome' = "none"
  /\ runs' = runs + 1
  /\ runConfig' = config
  /\ UNCHANGED <<isLoading, disabled, config, generatedCode, settledCode>>
  /\ UNCHANGED <<genVars, anaVars, csvVars, exVars>>

\* a click on the Generate button: handleGenerate up to its await, and the
\* render React commits before the next event
Click ==
  /\ ~disabled
  /\ runs < MaxRuns
  /\ isLoading' = TRUE
  /\ error' = NoMessage
  /\ disabled' = TRUE
  /\ inFlight' = inFlight + 1
  /\ codeAtStart' = generatedCode
  /\ outcome' = "none"
  /\ runs' = runs + 1
  /\ runConfig' = config
  /\ UNCHANGED <<config, generatedCode, settledCode>>
  /\ UNCHANGED <<genVars, anaVars, csvVars, exVars>>

\* the promise resolves: setGeneratedCode(code), then finally
Resolve ==
  /\ inFlight > 0
  /\ \E code \in CodesFor(runConfig) :
       /\ generatedCode' = code
       /\ settledCode' = code
  /\ isLoading' = FALSE
  /\ disabled' = FALSE
  /\ inFlight' = inFlight - 1
  /\ outcome' = "resolved"
  /\ UNCHANGED <<config, error, codeAtStart, runs, runConfig>>
  /\ UNCHANGED <<genVars, anaVars, csvVars, exVars>>

\* the promise rejects: setError(...), then finally
Reject ==
  /\ inFlight > 0
  /\ error' = FailureMessage
  /\ isLoading' = FALSE
  /\ disabled' = FALSE
  /\ inFlight' = inFlight - 1
  /\ outcome' = "rejected"
  /\ UNCHANGED <<config, generatedCode, settledCode, codeAtStart, runs, runConfig>>
  /\ UNCHANGED <<genVars, anaVars, csvVars, exVars>>

\* the panel calls setConfig
SetConfig ==
  /\ \E cfg \in AppConfigs \ {config} : config' = cfg
  /\ UNCHANGED <<generatedCode, isLoading, error, disabled, inFlight, codeAtStart, outcome,
                 settledCode, runs, runConfig>>
  /\ UNCHANGED <<genVars, anaVars, csvVars, exVars>>

NextApp ==
  \/ Click
  \/ Resolve
  \/ Reject
  \/ SetConfig

(***************************** actions ************************************)
NoError == [message |-> "", items |-> <<>>]

Init ==
  /\ callOpts = [c \in Calls |-> NoOpts]
  /\ pc = [c \in Calls |-> "idle"]
  /\ loopI = [c \in Calls |-> 0]
  /\ callData = [c \in Calls |-> <<>>]
  /\ thrown = [c \in Calls |-> NoError]
  /\ callRng = [c \in Calls |-> Closure("none", 0, 0)]
  /\ drawn = [c \in Calls |-> <<>>]
  /\ aPc = "idle"
  /\ aInput = Arr(<<>>)
  /\ aResult = <<>>
  /\ aThrown = NoThrow
  /\ aData = Arr(<<>>)
  /\ cPc = "idle"
  /\ cInput = Arr(<<>>)
  /\ cText = <<>>
  /\ cThrown = NoThrow
  /\ cData = Arr(<<>>)
  /\ exPc = [g \in Closures |-> "idle"]
  /\ exStart = [g \in Closures |-> 0]
  /\ exSeed = [g \in Closures |-> 0]
  /\ exOuts = [g \in Closures |-> <<>>]
  /\ config = DEFAULT_CONFIG
  /\ generatedCode = ""
  /\ isLoading = FALSE
  /\ error = NoMessage
  /\ disabled = FALSE
  /\ inFlight = 0
  /\ codeAtStart = ""
  /\ outcome = "none"
  /\ settledCode = ""
  /\ runs = 0
  /\ runConfig = DEFAULT_CONFIG

Finished(c) == pc[c] \in {"done", "threw"}

\* the prologue calling the random source once before it validates
Enter_drawsFirst(c, o) ==
  LET errors == validateOptions(o)
      cfg == Destructure(o)
  IN /\ callOpts' = [callOpts EXCEPT ![c] = o]
     /\ callRng' = [callRng EXCEPT ![c] = RngAfter(NewClosure(cfg.rng))]
     /\ loopI' = [loopI EXCEPT ![c] = 0]
     /\ callData' = [callData EXCEPT ![c] = <<>>]
     /\ drawn' = [drawn EXCEPT ![c] = <<>>]
     /\ IF Len(errors) > 0
        THEN /\ pc' = [pc EXCEPT ![c] = "threw"]
             /\ thrown' = [thrown EXCEPT ![c] =
                             [message |-> "Invalid options:", items |-> errors]]
        ELSE IF IsInvalidDate(NewDate(cfg.startDate))
        THEN /\ pc' = [pc EXCEPT ![c] = "threw"]
             /\ thrown' = [thrown EXCEPT ![c] =
                             [message |-> "Invalid start date", items |-> <<>>]]
        ELSE /\ pc' = [pc EXCEPT ![c] = "loop"]
             /\ UNCHANGED thrown

\* the prologue of generateMonthlySalesData(o), up to the for loop
Enter(c, o) ==
  LET errors == validateOptions(o)
      cfg == Destructure(o)
  IN /\ callOpts' = [callOpts EXCEPT ![c] = o]
     /\ callRng' = [callRng EXCEPT ![c] = NewClosure(cfg.rng)]
     /\ loopI' = [loopI EXCEPT ![c] = 0]
     /\ callData' = [callData EXCEPT ![c] = <<>>]
     /\ drawn' = [drawn EXCEPT ![c] = <<>>]
     /\ IF Len(errors) > 0
        THEN /\ pc' = [pc EXCEPT ![c] = "threw"]
             /\ thrown' = [thrown EXCEPT ![c] =
                             [message |-> "Invalid options:", items |-> errors]]
        ELSE IF IsInvalidDate(NewDate(cfg.startDate))
        THEN /\ pc' = [pc EXCEPT ![c] = "threw"]
             /\ thrown' = [thrown EXCEPT ![c] =
                             [message |-> "Invalid start date", items |-> <<>>]]
        ELSE /\ pc' = [pc EXCEPT ![c] = "loop"]
             /\ UNCHANGED thrown

\* a first call, with any config
Generate ==
  /\ pc[1] = "idle"
  /\ aPc = "idle"
  /\ cPc = "idle"
  /\ \E o \in Configs : Enter(1, o)
  /\ UNCHANGED <<anaVars, csvVars, exVars, appVars>>

\* a second call with the config of the first and a seeded source of its own
GenerateAgain ==
  /\ pc[1] = "done"
  /\ pc[2] = "idle"
  /\ callOpts[1].rng.t = "function"
  /\ callOpts[1].rng.kind = "seeded"
  /\ aPc = "idle"
  /\ cPc = "idle"
  /\ \E s \in Seeds : Enter(2, With(callOpts[1], "rng", SeededDesc(s)))
  /\ UNCHANGED <<anaVars, csvVars, exVars, appVars>>

\* a second call with the options of the first and any seed property
GenerateReseeded ==
  /\ pc[1] = "done"
  /\ pc[2] = "idle"
  /\ callOpts[1] \in SeedOpts
  /\ aPc = "idle"
  /\ cPc = "idle"
  /\ \E sd \in SeedValues : Enter(2, With(callOpts[1], "seed", sd))
  /\ UNCHANGED <<anaVars, csvVars, exVars, appVars>>

\* one iteration of the for loop
GenStep(c) ==
  /\ pc[c] = "loop"
  /\ loopI[c] < numPoints(Destructure(callOpts[c]).count)
  /\ \E d1 \in Choices(callRng[c]) : \E d2 \in Choices(RngAfter(callRng[c])) :
       LET r1 == RngValue(callRng[c], d1)
           cl1 == RngAfter(callRng[c])
           r2 == RngValue(cl1, d2)
       IN /\ callData' = [callData EXCEPT ![c] =
                        Append(@, MakeRecord(Destructure(callOpts[c]), loopI[c], r1, r2))]
          /\ callRng' = [callRng EXCEPT ![c] = RngAfter(cl1)]
          /\ drawn' = [drawn EXCEPT ![c] = @ \o <<r1, r2>>]
  /\ loopI' = [loopI EXCEPT ![c] = @ + 1]
  /\ UNCHANGED <<callOpts, pc, thrown>>
  /\ UNCHANGED <<anaVars, csvVars, exVars, appVars>>

\* the loop condition fails: return data
GenReturn(c) ==
  /\ pc[c] = "loop"
  /\ ~(loopI[c] < numPoints(Destructure(callOpts[c]).count))
  /\ pc' = [pc EXCEPT ![c] = "done"]
  /\ UNCHANGED <<callOpts, loopI, callData, thrown, callRng, drawn>>
  /\ UNCHANGED <<anaVars, csvVars, exVars, appVars>>

\* analyzeTrends(input)
Run(input) ==
  LET out == analyzeTrends(input)
  IN /\ aInput' = input
     /\ aThrown' = out.thrown
     /\ aData' = out.data
     /\ aResult' = out.res
     /\ aPc' = IF out.thrown = NoThrow THEN "done" ELSE "threw"
     /\ UNCHANGED <<genVars, csvVars, exVars, appVars>>

\* analyzeTrends on a hand-made input
Analyze ==
  /\ aPc = "idle"
  /\ cPc = "idle"
  /\ pc[1] = "idle"
  /\ \E input \in WellFormedInputs \cup MalformedInputs \cup QuirkInputs : Run(input)

\* analyzeTrends on the records the first call returned
AnalyzeGenerated ==
  /\ aPc = "idle"
  /\ pc[1] = "done"
  /\ pc[2] = "idle"
  /\ Analyzable(callData[1])
  /\ Run(Arr(callData[1]))

\* dataToCSV(input)
Export(input) ==
  LET out == dataToCSV(input)
  IN /\ cInput' = input
     /\ cThrown' = out.thrown
     /\ cData' = out.data
     /\ cText' = out.text
     /\ cPc' = IF out.thrown = NoThrow THEN "done" ELSE "threw"
     /\ UNCHANGED <<genVars, anaVars, exVars, appVars>>

\* dataToCSV on a hand-made input
ToCSV ==
  /\ cPc = "idle"
  /\ aPc = "idle"
  /\ pc[1] = "idle"
  /\ \E input \in WellFormedInputs \cup MalformedInputs \cup QuirkInputs : Export(input)

\* dataToCSV on the records the first call returned
ToCSVGenerated ==
  /\ cPc = "idle"
  /\ pc[1] = "done"
  /\ pc[2] = "idle"
  /\ Export(Arr(callData[1]))

Next ==
  \/ Generate
  \/ GenerateAgain
  \/ GenerateReseeded
  \/ \E c \in Calls : GenStep(c)
  \/ \E c \in Calls : GenReturn(c)
  \/ Analyze
  \/ AnalyzeGenerated
  \/ ToCSV
  \/ ToCSVGenerated

Spec == Init /\ [][Next]_vars

\* the closures of the example component alone
SpecExample == Init /\ [][NextExample]_vars

\* the App component alone
SpecApp == Init /\ [][NextApp]_vars

(************************ generator properties *****************************)
\* the destructured options of call c
Cfg(c) == Destructure(callOpts[c])

Started(c) == pc[c] # "idle"
Accepted(c) == pc[c] \in {"loop", "done"}

\* C1: a call that validation accepted returns exactly `count` records, and
\* the record at position i (0-based) has index i, at every point of the loop
\* and on return.
C1_CountAndIndices ==
  \A c \in Calls :
    Accepted(c) =>
      /\ \A k \in 1..Len(callData[c]) : callData[c][k].index = Num(k - 1)
      /\ Len(callData[c]) = loopI[c]
      /\ pc[c] = "done" => Len(callData[c]) * 1000 = Cfg(c).count.milli

C1_Witness ==
  /\ pc[1] = "done"
  /\ callOpts[1].count = Num(3)
  /\ Len(callData[1]) = 3
  /\ callData[1][3].index = Num(2)

\* the characters of the year and of the month of a date string
YearChars(date) == SubSeq(date.chars, 1, 4)
MonthChars(date) == SubSeq(date.chars, 6, 7)

\* C2 (as claimed): the date of record i lies in calendar month
\* startMonth + i, with the year carried, for every start date and step.
C2_DateInMonthI ==
  \A c \in Calls :
    Accepted(c) =>
      \A k \in 1..Len(callData[c]) :
        LET start == NewDate(Cfg(c).startDate)
            mo == start.m + (k - 1)
        IN /\ MonthChars(callData[c][k].date) = Pad2((mo % 12) + 1)
           /\ YearChars(callData[c][k].date) = Pad4(start.y + (mo \div 12))

\* C3: every record's sales is a non-negative integer: 0 when the raw sum
\* is below zero, and the rounded raw sum otherwise.
C3_SalesNonNegative ==
  \A c \in Calls :
    Accepted(c) =>
      \A k \in 1..Len(callData[c]) :
        LET sales == callData[c][k].sales
            raw == RawSales(Cfg(c), k - 1, drawn[c][2 * k - 1])
        IN /\ sales.t = "number"
           /\ sales.milli >= 0
           /\ sales.milli % 1000 = 0
           /\ sales.milli = (IF raw < 0 THEN 0 ELSE ((raw + 500) \div 1000) * 1000)

C3_Witness ==
  /\ pc[1] = "done"
  /\ Len(callData[1]) >= 2
  /\ RawSales(Cfg(1), 1, drawn[1][3]) < -500
  /\ callData[1][2].sales = Num(0)

\* C4: two calls with identical configs, each with a seeded source of its
\* own built from the same seed, return identical records.
C4_SameSeedSameRecords ==
  (/\ pc[1] = "done"
   /\ pc[2] = "done"
   /\ callOpts[1].rng.t = "function"
   /\ callOpts[1].rng.kind = "seeded"
   /\ callOpts[1] = callOpts[2]) => callData[1] = callData[2]

C4_Witness ==
  /\ pc[1] = "done"
  /\ pc[2] = "done"
  /\ callOpts[1] = callOpts[2]
  /\ callOpts[1].rng.t = "function"
  /\ callOpts[1].rng.kind = "seeded"
  /\ Len(callData[1]) >= 3
  /\ callData[1][1].category # callData[1][2].category
  /\ callData[1][1].sales # callData[1][3].sales
  /\ drawn[1][1] # drawn[1][3]

\* the violation descriptions a config calls for, rule by rule
InRange(v, lo, hi) == v.t = "number" /\ lo * 1000 <= v.milli /\ v.milli <= hi * 1000

Violations(o) ==
  {e \in
     { [on |-> o.count.t # "undefined" /\ ~(o.count.t = "number" /\ o.count.milli % 1000 = 0),
        err |-> Err("count", "count must be an integer")],
       [on |-> o.count.t = "number" /\ o.count.milli < 0,
        err |-> Err("count", "count must be non-negative")],
       [on |-> o.count.t = "number" /\ o.count.milli > 120000,
        err |-> Err("count", "count must be <= 120 months (10 years)")],
       [on |-> o.startDate.t \notin {"undefined", "isodate"},
        err |-> Err("startDate", "startDate must be a valid date string or Date object")],
       [on |-> o.startDate.t = "isodate" /\ o.startDate.date.y \notin 1900..2100,
        err |-> Err("startDate", "startDate year must be between 1900 and 2100")],
       [on |-> o.categories.t \notin {"undefined", "array"},
        err |-> Err("categories", "categories must be an array")],
       [on |-> o.categories.t = "array" /\ o.categories.items = <<>>,
        err |-> Err("categories", "categories array cannot be empty")],
       [on |-> o.categories.t = "array"
                 /\ \E k \in DOMAIN o.categories.items : o.categories.items[k].t # "string",
        err |-> Err("categories", "all category names must be strings")],
       [on |-> o.categories.t = "array"
                 /\ \E j, k \in DOMAIN o.categories.items :
                      j # k /\ o.categories.items[j] = o.categories.items[k],
        err |-> Err("categories", "category names must be unique")],
       [on |-> o.rng.t \notin {"undefined", "function"},
        err |-> Err("rng", "rng must be a function")] }
     \cup
     { [on |-> o[b.key].t \notin {"undefined", "number"},
        err |-> Err(b.key, MustBeNumberMsg[b.key])] : b \in Range(numericBounds) }
     \cup
     { [on |-> o[b.key].t = "number" /\ ~InRange(o[b.key], b.min, b.max),
        err |-> Err(b.key, b.msg)] : b \in Range(numericBounds) }
   : e.on}

\* C5: a config violating several rules makes the call throw one error
\* whose message lists a description for every violated rule.
C5_AllViolationsListed ==
  \A c \in Calls :
    Started(c) =>
      /\ \A v \in Violations(callOpts[c]) : v.err \in Range(thrown[c].items)
      /\ (Violations(callOpts[c]) # {}) => pc[c] = "threw"

C5_Witness ==
  /\ pc[1] = "threw"
  /\ callOpts[1].count = Num(121)
  /\ callOpts[1].baseValue = Num(-100)
  /\ callOpts[1].categories = Arr(<<>>)
  /\ Len(thrown[1].items) = 3

\* startDate, categories and rng are valid or left out
OthersValid(o) ==
  /\ o.startDate.t = "undefined"
       \/ (o.startDate.t = "isodate" /\ o.startDate.date.y \in 1900..2100)
  /\ o.categories.t = "undefined"
       \/ /\ o.categories.t = "array"
          /\ o.categories.items # <<>>
          /\ \A k \in DOMAIN o.categories.items : o.categories.items[k].t = "string"
          /\ \A j, k \in DOMAIN o.categories.items :
               j # k => o.categories.items[j] # o.categories.items[k]
  /\ o.rng.t \in {"undefined", "function"}

\* the provided options that are outside their inclusive bounds
OutsideBound(o) ==
  (IF o.count.t # "undefined" /\ ~(InRange(o.count, 0, 120) /\ o.count.milli % 1000 = 0)
   THEN {"count"} ELSE {})
  \cup
  {b.key : b \in {bb \in Range(numericBounds) :
                    o[bb.key].t # "undefined" /\ ~InRange(o[bb.key], bb.min, bb.max)}}

Scenario8 ==
  [NoOpts EXCEPT !.count = Num(3), !.baseValue = Num(1000), !.trendPerMonth = Num(100),
                 !.seasonalityAmplitude = Num(0), !.noiseAmount = Num(0),
                 !.categories = Arr(<<Str("x")>>), !.rng = ConstRng(100)]

C8_BasePlusTrend ==
  \A c \in Calls :
    Accepted(c) =>
      /\ (/\ Cfg(c).seasonalityAmplitude = Num(0)
          /\ Cfg(c).noiseAmount = Num(0)
          /\ Cfg(c).baseValue.milli % 1000 = 0
          /\ Cfg(c).trendPerMonth.milli % 1000 = 0) =>
           \A k \in 1..Len(callData[c]) :
             LET v == Cfg(c).baseValue.milli + Cfg(c).trendPerMonth.milli * (k - 1)
             IN callData[c][k].sales.milli = (IF v > 0 THEN v ELSE 0)
      /\ (pc[c] = "done" /\ callOpts[c] = Scenario8) =>
           /\ Len(callData[c]) = 3
           /\ \A k \in 1..3 :
                /\ callData[c][k].sales = Num(1000 + 100 * (k - 1))
                /\ callData[c][k].category = Str("x")
                /\ callData[c][k].index = Num(k - 1)

C8_Witness ==
  /\ pc[1] = "done"
  /\ callOpts[1] = Scenario8
  /\ callData[1][3].sales = Num(1200)

\* C9: every record's category is one of the configured labels: with n
\* labels and category draw r it is categories[floor(r*n)], and
\* 0 <= floor(r*n) <= n-1.
C9_CategoryConfigured ==
  \A c \in Calls :
    Accepted(c) =>
      \A k \in 1..Len(callData[c]) :
        LET items == Cfg(c).categories.items
            n == Len(items)
            r == drawn[c][2 * k]
            \* floor(r * n) for r in thousandths
            f == CHOOSE j \in 0..n : j * 1000 <= r * n /\ r * n < (j + 1) * 1000
        IN /\ f <= n - 1
           /\ callData[c][k].category = items[f + 1]
           /\ callData[c][k].category \in Range(items)
           /\ callData[c][k].category.t = "string"

C9_Witness ==
  /\ pc[1] = "done"
  /\ callOpts[1].categories = Arr(<<Str("a"), Str("b"), Str("c")>>)
  /\ Len(callData[1]) >= 2
  /\ drawn[1][2] = 999
  /\ callData[1][1].category = Str("c")
  /\ callData[1][2].category = Str("a")

(************************* analyzer properties *****************************)
\* the input of analyzeTrends is a non-empty array of well-formed records
WellFormedInput == validateData(aInput) = NoThrow

\* the number of records of the input that have category cat
RecordsOf(cat) == Cardinality({k \in DOMAIN aInput.items : aInput.items[k].category = cat})

InputCategories == {aInput.items[k].category : k \in DOMAIN aInput.items}

\* every category with fewer than 2 records is mapped to null
SmallGroupsNull ==
  /\ aPc = "done"
  /\ \A cat \in InputCategories :
       RecordsOf(cat) < 2 => (KeyOf(cat) \in DOMAIN aResult /\ aResult[KeyOf(cat)] = Null)

\* C10 (as claimed): for every non-empty well-formed input, a single
\* record included, analyzeTrends raises no error and maps each category
\* that has fewer than 2 records to null.
C10_SmallGroupsNullAlways ==
  (aPc # "idle" /\ WellFormedInput) => SmallGroupsNull

\* C10 (amended): for every well-formed input of at least 2 records,
\* analyzeTrends raises no error and maps each category that has fewer than
\* 2 records to null; a well-formed input of a single record is rejected
\* with the error "Need at least 2 data points for trend analysis".
C10_SmallGroupsNullFromTwo ==
  (aPc # "idle" /\ WellFormedInput) =>
    /\ Len(aInput.items) >= 2 => SmallGroupsNull
    /\ Len(aInput.items) < 2 =>
         /\ aPc = "threw"
         /\ aThrown.message = "Need at least 2 data points for trend analysis"

C10_Witness ==
  /\ aPc = "done"
  /\ Len(aInput.items) = 3
  /\ RecordsOf(Str("a")) = 2
  /\ RecordsOf(Str("b")) = 1
  /\ aResult["b"] = Null
  /\ aResult["a"] # Null

(* ---- C11 ---- *)
IsDigitChar(ch) == \E n \in 0..9 : ch = Digit(n)

DigitValue(ch) == CHOOSE n \in 0..9 : ch = Digit(n)

\* v is a string of four digits, two digits and two digits joined by "-"
HasDatePattern(v) ==
  /\ v.t = "string"
  /\ Len(v.chars) = 10
  /\ v.chars[5] = "-"
  /\ v.chars[8] = "-"
  /\ \A k \in {1, 2, 3, 4, 6, 7, 9, 10} : IsDigitChar(v.chars[k])

\* v has the pattern and names a day of the calendar
IsCalendarDate(v) ==
  /\ HasDatePattern(v)
  /\ LET year == 1000 * DigitValue(v.chars[1]) + 100 * DigitValue(v.chars[2])
                  + 10 * DigitValue(v.chars[3]) + DigitValue(v.chars[4])
          month == 10 * DigitValue(v.chars[6]) + DigitValue(v.chars[7])
          day == 10 * DigitValue(v.chars[9]) + DigitValue(v.chars[10])
     IN /\ month \in 1..12
        /\ day \in 1..DaysInMonth(year, month - 1)

MissingField(row) == \E f \in {"date", "category", "sales"} : f \notin DOMAIN row

SalesNotNumber(row) == row.sales.t \notin {"number"}

\* the defects of the claim, with the date held to the pattern only
Defective(rows) ==
  \/ rows = <<>>
  \/ \E k \in DOMAIN rows :
       \/ MissingField(rows[k])
       \/ SalesNotNumber(rows[k])
       \/ ~HasDatePattern(rows[k].date)

\* the defects of the claim, with the date held to the calendar
DefectiveCalendar(rows) ==
  \/ rows = <<>>
  \/ \E k \in DOMAIN rows :
       \/ MissingField(rows[k])
       \/ SalesNotNumber(rows[k])
       \/ ~IsCalendarDate(rows[k].date)

\* C11 (as claimed): dataToCSV and analyzeTrends both throw, before any
\* output, on an input that is empty, has a record missing date, category
\* or sales, has a sales that is no number, or has a date that is no
\* well-formed YYYY-MM-DD calendar date; and both accept every other input.
C11_RejectsNonCalendar ==
  /\ (cPc # "idle" /\ cInput.t = "array") =>
       /\ (cPc = "threw") <=> DefectiveCalendar(cInput.items)
       /\ (cPc = "threw") => cText = <<>>
  /\ (aPc # "idle" /\ aInput.t = "array") =>
       /\ (aPc = "threw") <=> DefectiveCalendar(aInput.items)
       /\ (aPc = "threw") => aResult = <<>>

\* C11 (amended): dataToCSV and analyzeTrends both throw, before any output,
\* on an input that is empty, has a record missing date, category or sales,
\* has a sales that is no number, or has a date that is not four digits,
\* two digits and two digits joined by "-" (the digits need not name a
\* calendar day); dataToCSV accepts every other array, and analyzeTrends
\* accepts every other array of at least 2 records and rejects one of a
\* single record.
C11_RejectsDefective ==
  /\ (cPc # "idle" /\ cInput.t = "array") =>
       /\ (cPc = "threw") <=> Defective(cInput.items)
       /\ (cPc = "threw") => cText = <<>>
  /\ (aPc # "idle" /\ aInput.t = "array") =>
       /\ (aPc = "threw") <=> (Defective(aInput.items) \/ Len(aInput.items) < 2)
       /\ (aPc = "threw") => aResult = <<>>

C11_Witness ==
  /\ aPc = "threw"
  /\ aInput.t = "array"
  /\ Len(aInput.items) = 2
  /\ \E k \in DOMAIN aInput.items :
       /\ ~MissingField(aInput.items[k])
       /\ aInput.items[k].sales = NaN

(* ---- C12 ---- *)
\* C12: for every accepted input, the keys of the mapping analyzeTrends
\* returns are exactly the distinct category values of the input records:
\* every category has its key, and there are as many keys as categories.
C12_KeysAreCategories ==
  aPc = "done" =>
    /\ \A cat \in InputCategories : KeyOf(cat) \in DOMAIN aResult
    /\ \A key \in DOMAIN aResult : \E cat \in InputCategories : KeyOf(cat) = key
    /\ Cardinality(DOMAIN aResult) = Cardinality(InputCategories)

(* ---- C13 ---- *)
\* the ways to reorder n records
Orderings(n) == {p \in [1..n -> 1..n] : \A j, k \in 1..n : p[j] = p[k] => j = k}

Reordered(items, p) == [k \in DOMAIN items |-> items[p[k]]]

\* the records are plain ones whose date order is determined: string
\* categories, calendar dates, no two records of a category on the same date
DateOrderDetermined(items) ==
  \A j, k \in DOMAIN items :
    /\ IsCalendarDate(items[k].date)
    /\ items[k].category.t = "string"
    /\ (j # k /\ items[j].category = items[k].category) => items[j].date # items[k].date

\* C13: the result of analyzeTrends does not depend on the order of the
\* input records: every permutation of accepted records, which carry date,
\* category and sales and have distinct dates within a category, yields the
\* same slope, intercept and r2 per category.
C13_OrderIndependent ==
  (aPc = "done" /\ DateOrderDetermined(aInput.items)) =>
    \A p \in Orderings(Len(aInput.items)) :
      analyzeTrends(Arr(Reordered(aInput.items, p))).res = aResult

(* ---- C14 ---- *)
\* the first call returned a pure trend on one category and analyzeTrends
\* ran on its records
PureTrendAnalyzed ==
  /\ pc[1] = "done"
  /\ aPc # "idle"
  /\ aInput = Arr(callData[1])
  /\ Cfg(1).seasonalityAmplitude = Num(0)
  /\ Cfg(1).noiseAmount = Num(0)
  /\ Len(Cfg(1).categories.items) = 1
  /\ Cfg(1).count.milli >= 2000

\* |q - m/1000| <= 1
WithinOne(q, m) ==
  /\ q.t = "number"
  /\ Abs(1000 * q.n - m * q.d) <= 1000 * q.d

\* q > 0.99
AboveNinetyNine(q) ==
  /\ q.t = "number"
  /\ 100 * q.n > 99 * q.d

\* C14: for a valid config with amplitude 0, noise 0, one category,
\* count >= 2 and any trendPerMonth T, analyzeTrends on the generated series
\* returns for the category a slope within 1 of T and an r2 above 0.99.
C14_SlopeIsTrend ==
  PureTrendAnalyzed =>
    /\ aPc = "done"
    /\ LET fit == aResult[KeyOf(Cfg(1).categories.items[1])]
       IN /\ fit # Null
          /\ WithinOne(fit.slope, Cfg(1).trendPerMonth.milli)
          /\ AboveNinetyNine(fit.r2)

(* ---- C15 ---- *)
\* the records of cat are at least 2 and all have the same sales
FlatGroup(cat) ==
  /\ RecordsOf(cat) >= 2
  /\ \A j, k \in DOMAIN aInput.items :
       (aInput.items[j].category = cat /\ aInput.items[k].category = cat) =>
         aInput.items[j].sales = aInput.items[k].sales

\* C15: for a category with at least 2 records that all have the same
\* sales, analyzeTrends reports r2 = 1 or raises an error; it never returns
\* a not-a-number r2.
C15_FlatSeriesPolicy ==
  (aPc = "done" /\ \A cat \in InputCategories : cat.t = "string") =>
    \A cat \in InputCategories :
      FlatGroup(cat) => aResult[KeyOf(cat)].r2 = QInt(1)

(* ---- C16 ---- *)
RECURSIVE Split(_, _)
\* chars.split(sep) for a separator of one character
Split(chars, sep) ==
  IF \A k \in DOMAIN chars : chars[k] # sep THEN <<chars>>
  ELSE LET first == CHOOSE k \in DOMAIN chars :
                      chars[k] = sep /\ \A j \in 1..(k - 1) : chars[j] # sep
       IN <<SubSeq(chars, 1, first - 1)>> \o Split(SubSeq(chars, first + 1, Len(chars)), sep)

\* dataToCSV ran on the records the first call returned
GeneratedExported ==
  /\ pc[1] = "done"
  /\ cPc # "idle"
  /\ cInput = Arr(callData[1])

\* no configured label holds a comma or a line break
PlainLabels ==
  \A k \in DOMAIN Cfg(1).categories.items :
    \A j \in DOMAIN LabelChars[Cfg(1).categories.items[k].s] :
      LabelChars[Cfg(1).categories.items[k].s][j] \notin {",", "\n"}

HeaderLine == <<"d", "a", "t", "e", ",", "c", "a", "t", "e", "g", "o", "r", "y", ",",
                "s", "a", "l", "e", "s">>

\* count + 1 lines, the header first, 3 fields on every line
LinesAndFields ==
  /\ cPc = "done"
  /\ LET lines == Split(cText, "\n")
     IN /\ Len(lines) * 1000 = Cfg(1).count.milli + 1000
        /\ lines[1] = HeaderLine
        /\ \A k \in DOMAIN lines : Len(Split(lines[k], ",")) = 3

\* C16 (as claimed): for the records generated from any valid config, count
\* 0 and arbitrary unique labels included, dataToCSV returns count + 1
\* lines, the first being the header, each of 3 comma-separated fields.
C16_LinesAndFieldsAlways == GeneratedExported => LinesAndFields

\* C16 (amended): for the records generated from a valid config with
\* count >= 1 whose labels hold no comma and no line break, dataToCSV returns
\* count + 1 lines, the first being the header, each of 3 comma-separated
\* fields; for count = 0 it throws 'data array cannot be empty'.
C16_LinesAndFieldsPlain ==
  GeneratedExported =>
    /\ (Cfg(1).count.milli >= 1000 /\ PlainLabels) => LinesAndFields
    /\ Cfg(1).count.milli = 0 =>
         /\ cPc = "threw"
         /\ cThrown.message = "data array cannot be empty"

C16_Witness ==
  /\ GeneratedExported
  /\ cPc = "done"
  /\ Cfg(1).count = Num(3)
  /\ Len(Cfg(1).categories.items) = 2
  /\ PlainLabels
  /\ Len(Split(cText, "\n")) = 4

(* ---- C17 ---- *)
\* the characters of a string value
StringChars(v) == IF "chars" \in DOMAIN v THEN v.chars ELSE LabelChars[v.s]

RECURSIVE ParseNat(_)
\* the number a sequence of digits writes
ParseNat(chars) ==
  IF chars = <<>> THEN 0
  ELSE 10 * ParseNat(SubSeq(chars, 1, Len(chars) - 1)) + DigitValue(chars[Len(chars)])

\* the thousandths a field of digits, with an optional sign and an optional
\* fraction of up to 3 digits, writes
ParseNumber(chars) ==
  LET negative == chars # <<>> /\ chars[1] = "-"
      body == IF negative THEN Tail(chars) ELSE chars
      parts == Split(body, ".")
      whole == ParseNat(parts[1])
      digits == IF Len(parts) > 1 THEN parts[2] ELSE <<>>
      padded == SubSeq(digits \o <<"0", "0", "0">>, 1, 3)
      abs == 1000 * whole + ParseNat(padded)
  IN IF negative THEN -abs ELSE abs

IsNumberField(chars) ==
  /\ chars # <<>>
  /\ \A k \in DOMAIN chars : IsDigitChar(chars[k]) \/ chars[k] \in {"-", "."}

\* the text read back: one line per record after the header, and on line k
\* the date, the category and the sales of record k
ReadsBack ==
  LET lines == Split(cText, "\n")
      items == cInput.items
  IN /\ Len(lines) = Len(items) + 1
     /\ \A k \in DOMAIN items :
          LET fields == Split(lines[k + 1], ",")
          IN /\ Len(fields) = 3
             /\ items[k].date.t = "string" /\ fields[1] = StringChars(items[k].date)
             /\ items[k].category.t = "string"
             /\ fields[2] = StringChars(items[k].category)
             /\ IsNumberField(fields[3])
             /\ ParseNumber(fields[3]) = items[k].sales.milli

\* every category is a string without comma and line break
PlainCategories ==
  \A k \in DOMAIN cInput.items :
    /\ cInput.items[k].category.t = "string"
    /\ \A j \in DOMAIN StringChars(cInput.items[k].category) :
         StringChars(cInput.items[k].category)[j] \notin {",", "\n"}

\* C17 (as claimed): for every record sequence dataToCSV accepts, splitting
\* the output into lines, dropping the header and splitting each line on ','
\* yields, in input order, the (date, category, sales) triple of each record.
C17_RoundTripAlways == cPc = "done" => ReadsBack

\* C17 (amended): for every record sequence dataToCSV accepts whose
\* categories are strings without comma and line break, splitting the output
\* into lines, dropping the header and splitting each line on ',' yields, in
\* input order, the (date, category, sales) triple of each record.
C17_RoundTripPlain == (cPc = "done" /\ PlainCategories) => ReadsBack

C17_Witness ==
  /\ cPc = "done"
  /\ PlainCategories
  /\ Len(cInput.items) = 2
  /\ cInput.items[1].sales = Milli(-1250)
  /\ cInput.items[2].sales = Num(5)
  /\ cInput.items[1].date # cInput.items[2].date

(* ---- C18 ---- *)
\* a non-empty array of pairwise distinct strings
GoodCategories(v) ==
  /\ v.t = "array"
  /\ v.items # <<>>
  /\ \A k \in DOMAIN v.items : v.items[k].t = "string"
  /\ \A j, k \in DOMAIN v.items : j # k => v.items[j] # v.items[k]

CategoryErrors(c) == {k \in DOMAIN thrown[c].items : thrown[c].items[k].field = "categories"}

\* C18: a provided categories option that is an empty array, holds a
\* non-string, holds a label twice or is no array is rejected with an error
\* on categories before any record is produced; a non-empty array of
\* pairwise distinct strings raises no error on categories.
C18_CategoriesValidated ==
  \A c \in Calls :
    (Started(c) /\ callOpts[c].categories # Undef) =>
      IF GoodCategories(callOpts[c].categories)
      THEN CategoryErrors(c) = {}
      ELSE /\ pc[c] = "threw"
           /\ callData[c] = <<>>
           /\ CategoryErrors(c) # {}

C18_Witness ==
  /\ pc[1] = "threw"
  /\ callOpts[1].categories = Arr(<<Str("a"), Str("a")>>)
  /\ thrown[1].items = <<Err("categories", "category names must be unique")>>

(* ---- C19 ---- *)
PresetNames ==
  {"default", "highSeasonality", "strongTrend", "highVolatility", "stable", "quarterly"}

\* C19: a call with no options raises no error and returns 24 records whose
\* categories are among the three default labels; each of the six presets
\* passes validation and yields as many records as its count, 24.
C19_DefaultsAndPresets ==
  /\ DOMAIN presets = PresetNames
  /\ \A c \in Calls :
       /\ (Started(c) /\ callOpts[c] = NoOpts) =>
            /\ pc[c] # "threw"
            /\ pc[c] = "done" => Len(callData[c]) = 24
            /\ \A k \in DOMAIN callData[c] :
                 callData[c][k].category \in {Str("fixtures"), Str("furniture"), Str("appliances")}
       /\ \A name \in PresetNames :
            (Started(c) /\ callOpts[c] = presets[name]) =>
              /\ pc[c] # "threw"
              /\ thrown[c] = NoError
              /\ pc[c] = "done" =>
                   /\ Len(callData[c]) = 24
                   /\ Len(callData[c]) * 1000 = callOpts[c].count.milli

C19_Witness ==
  /\ pc[1] = "done"
  /\ callOpts[1] = presets.highVolatility
  /\ Len(callData[1]) = 24
  /\ \E k \in DOMAIN callData[1] : callData[1][k].category = Str("appliances")

(* ---- C20 ---- *)
\* the array passed to analyzeTrends and to dataToCSV is, after the call,
\* what it was before it
ArraysUntouched ==
  /\ aPc # "idle" => aData = aInput
  /\ cPc # "idle" => cData = cInput

\* no step of a call changes its options object, and no step changes the
\* array a finished call returned
OptionsUntouched ==
  \A c \in Calls :
    /\ Started(c) => callOpts'[c] = callOpts[c]
    /\ pc[c] = "done" => callData'[c] = callData[c]

\* C20: the operations have no side effect on their inputs:
\* generateMonthlySalesData leaves the options object and its categories
\* array unchanged, and analyzeTrends and dataToCSV leave the record array
\* unchanged in content and order, the records they were run on included.
C20_InputsUnchanged == []ArraysUntouched /\ [][OptionsUntouched]_vars

\* analyzeTrends returned on records of one category given out of date order
C20_Witness ==
  /\ aPc = "done"
  /\ Len(aInput.items) = 3
  /\ \A k \in DOMAIN aInput.items : HasDate(aInput.items[k])
  /\ aInput.items[1]._date.time > aInput.items[2]._date.time
  /\ aInput.items[1].category = aInput.items[2].category
  /\ aData = aInput

(* ---- C21 ---- *)
RECURSIVE NthDraw(_, _)
\* the j-th value a seeded source returns
NthDraw(seed, j) ==
  IF j = 1 THEN (137 * seed + 1) % 1000 ELSE (21 * NthDraw(seed, j - 1) + 7) % 1000

\* C21: an accepted call has consumed exactly 2 draws per step made, 2*count
\* on return; the record of step i is built from draw 2i+1 (noise) and draw
\* 2i+2 (category), in the order the source produced them.
C21_TwoDrawsPerStep ==
  \A c \in Calls :
    Accepted(c) =>
      /\ callRng[c].calls = 2 * loopI[c]
      /\ Len(drawn[c]) = 2 * loopI[c]
      /\ pc[c] = "done" => callRng[c].calls * 1000 = 2 * Cfg(c).count.milli
      /\ Cfg(c).rng.kind = "seeded" =>
           \A j \in DOMAIN drawn[c] : drawn[c][j] = NthDraw(Cfg(c).rng.seed, j)
      /\ \A k \in DOMAIN callData[c] :
           /\ callData[c][k].sales = Num(SalesOf(RawSales(Cfg(c), k - 1, drawn[c][2 * k - 1])))
           /\ callData[c][k].category =
                At(Cfg(c).categories.items,
                   CategoryIndex(drawn[c][2 * k], Len(Cfg(c).categories.items)))

\* a seeded call of 3 steps whose noise draws and category draws differ
C21_Witness ==
  /\ pc[1] = "done"
  /\ Cfg(1).rng.kind = "seeded"
  /\ Cfg(1).noiseAmount.milli > 0
  /\ Len(drawn[1]) = 6
  /\ drawn[1][1] # drawn[1][2]
  /\ callData[1][1].sales # Num(SalesOf(RawSales(Cfg(1), 0, drawn[1][2])))

(* ---- C22 ---- *)
RECURSIVE SeqSum(_)
SeqSum(seq) == IF seq = <<>> THEN 0 ELSE Head(seq) + SeqSum(Tail(seq))

\* every category of the input is a string
StringCategories == \A cat \in InputCategories : cat.t = "string"

\* the records of cat in the order analyzeTrends regresses them
SortedGroup(cat) == SortPoints(Points(aInput.items, cat))

\* slope and intercept by the formulas, from sums of integers: x the ranks
\* 0..n-1 and y the sales in thousandths
FormulaFit(sorted) ==
  LET n == Len(sorted)
      sx == SeqSum([k \in 1..n |-> k - 1])
      sx2 == SeqSum([k \in 1..n |-> (k - 1) * (k - 1)])
      sy == SeqSum([k \in 1..n |-> sorted[k].sales.milli])
      sxy == SeqSum([k \in 1..n |-> (k - 1) * sorted[k].sales.milli])
      slope == Q(n * sxy - sx * sy, 1000 * (n * sx2 - sx * sx))
      intercept == QDiv(QSub(Q(sy, 1000), QMul(slope, QInt(sx))), QInt(n))
  IN [slope |-> slope, intercept |-> intercept]

IntegerNoAmplitude(c) ==
  /\ Cfg(c).seasonalityAmplitude = Num(0)
  /\ Cfg(c).baseValue.milli % 1000 = 0
  /\ Cfg(c).trendPerMonth.milli % 1000 = 0
  /\ Cfg(c).noiseAmount.milli % 1000 = 0

\* B + T*i of record k, in thousandths
TrendLine(c, k) == Cfg(c).baseValue.milli + Cfg(c).trendPerMonth.milli * (k - 1)

\* (r - 0.5) * 2 * noiseAmount for the noise draw of record k and an integer
\* noiseAmount, in thousandths
NoiseOf(c, k) == (drawn[c][2 * k - 1] - 500) * 2 * (Cfg(c).noiseAmount.milli \div 1000)

\* the noise lies in [-N, N), N being noiseAmount (it is 0 when N is 0)
NoiseCentred(c, k) ==
  /\ -Cfg(c).noiseAmount.milli <= NoiseOf(c, k)
  /\ NoiseOf(c, k) <= Cfg(c).noiseAmount.milli
  /\ Cfg(c).noiseAmount.milli > 0 => NoiseOf(c, k) < Cfg(c).noiseAmount.milli

\* C23 (as claimed): the noise lies in [-N, N), and with amplitude 0 and
\* integer B, T, N every record has
\* max(0, B + T*i - N) <= sales <= B + T*i + N.
C23_SalesWithinNoise ==
  \A c \in Calls :
    (Accepted(c) /\ IntegerNoAmplitude(c)) =>
      \A k \in DOMAIN callData[c] :
        /\ NoiseCentred(c, k)
        /\ Max(0, TrendLine(c, k) - Cfg(c).noiseAmount.milli) <= callData[c][k].sales.milli
        /\ callData[c][k].sales.milli <= TrendLine(c, k) + Cfg(c).noiseAmount.milli

\* C23 (amended): the noise lies in [-N, N), and with amplitude 0 and
\* integer B, T, N every record has
\* max(0, B + T*i - N) <= sales <= max(0, B + T*i + N): the clamp at 0 also
\* applies where B + T*i + N is negative.
C23_SalesWithinClampedNoise ==
  \A c \in Calls :
    (Accepted(c) /\ IntegerNoAmplitude(c)) =>
      \A k \in DOMAIN callData[c] :
        /\ NoiseCentred(c, k)
        /\ Max(0, TrendLine(c, k) - Cfg(c).noiseAmount.milli) <= callData[c][k].sales.milli
        /\ callData[c][k].sales.milli
             <= Max(0, TrendLine(c, k) + Cfg(c).noiseAmount.milli)

\* base 2, trend -1, noise amount 3: the first record on the upper bound,
\* the second on the lower one
C23_Witness ==
  /\ pc[1] = "done"
  /\ IntegerNoAmplitude(1)
  /\ Cfg(1).noiseAmount = Num(3)
  /\ Len(callData[1]) >= 2
  /\ drawn[1][1] = 999
  /\ callData[1][1].sales = Num(5)
  /\ drawn[1][3] = 0
  /\ callData[1][2].sales = Num(0)

(* ---- C24 ---- *)
\* C24: a call that rejects its config has invoked the random source zero
\* times and holds no record; the source is in the state it was built in.
C24_RejectsBeforeSynthesis ==
  \A c \in Calls :
    pc[c] = "threw" =>
      /\ callRng[c].calls = 0
      /\ drawn[c] = <<>>
      /\ callData[c] = <<>>
      /\ loopI[c] = 0
      /\ callRng[c] = NewClosure(Cfg(c).rng)

\* a rejected call that was given a seeded source
C24_Witness ==
  /\ pc[1] = "threw"
  /\ callOpts[1].rng = SeededDesc(1)
  /\ callOpts[1].count = Num(121)
  /\ callRng[1].state = 138
  /\ Len(thrown[1].items) >= 2

(* ---- C25 ---- *)
\* analyzeTrends ran on the records the first call returned
GeneratedAnalyzed ==
  /\ pc[1] = "done"
  /\ aPc # "idle"
  /\ aInput = Arr(callData[1])

\* C25: the records a call returns are a valid input of the other
\* operations: with at least 1 record validateData accepts them and
\* dataToCSV does not throw, with at least 2 analyzeTrends does not throw.
C25_OutputIsValidInput ==
  /\ \A c \in Calls :
       (pc[c] = "done" /\ Len(callData[c]) >= 1) =>
         /\ validateData(Arr(callData[c])) = NoThrow
         /\ \A k \in DOMAIN callData[c] :
              /\ HasDatePattern(callData[c][k].date)
              /\ callData[c][k].category.t = "string"
              /\ callData[c][k].sales.t = "number"
  /\ (GeneratedExported /\ Len(callData[1]) >= 1) => cPc = "done"
  /\ (GeneratedAnalyzed /\ Len(callData[1]) >= 2) => aPc = "done"

\* both operations returned on the same generated records
C25_Witness ==
  /\ GeneratedExported
  /\ GeneratedAnalyzed
  /\ Len(callData[1]) = 3
  /\ cPc = "done"
  /\ aPc = "done"
  /\ aResult # <<>>

(* ---- C26 ---- *)
\* date, sales and category of a record
Triple(r) == [date |-> r.date, sales |-> r.sales, category |-> r.category]

\* C26: for a config validateOptions accepts and the same draws, the
\* validating generator, the generator of notebook_cells.js and the
\* TypeScript generator return the same date, sales and category at every
\* position; the first two agree on index and _date too.
C26_GeneratorsAgree ==
  \A c \in Calls :
    pc[c] = "done" =>
      /\ generateMonthlySalesData_notebook(callOpts[c], drawn[c]).thrown = ""
      /\ generateMonthlySalesData_notebook(callOpts[c], drawn[c]).data = callData[c]
      /\ generateMonthlySalesData_typed(callOpts[c], drawn[c])
           = [k \in DOMAIN callData[c] |-> Triple(callData[c][k])]

\* a call whose draws differ and whose second record is clamped at 0
C26_Witness ==
  /\ pc[1] = "done"
  /\ Len(callData[1]) = 3
  /\ drawn[1][1] # drawn[1][3]
  /\ callData[1][2].sales = Num(0)
  /\ RawSales(Cfg(1), 1, drawn[1][3]) < -500

(* ---- C27 ---- *)
\* the options of the two calls are equal but for the seed property
SameButSeed == \A f \in Fields \ {"seed"} : callOpts[1][f] = callOpts[2][f]

\* C27: the seed property of the options has no effect: two calls whose
\* options differ at most in seed fail alike and, on the same draws, return
\* the same records; a call without rng draws from Math.random whatever its
\* seed.
C27_SeedIgnored ==
  /\ (Finished(1) /\ Finished(2) /\ SameButSeed) =>
       /\ pc[1] = pc[2]
       /\ thrown[1] = thrown[2]
       /\ drawn[1] = drawn[2] => callData[1] = callData[2]
  /\ \A c \in Calls :
       (Accepted(c) /\ callOpts[c].rng = Undef) =>
         /\ Cfg(c).rng = MathRandom
         /\ callRng[c].kind = "free"

\* two calls with the same options, seed 42 and no rng, returned different
\* records
C27_Witness ==
  /\ pc[1] = "done"
  /\ pc[2] = "done"
  /\ callOpts[1] = callOpts[2]
  /\ callOpts[1].seed = Num(42)
  /\ callOpts[1].rng = Undef
  /\ callData[1] # callData[2]

(* ---- C28 ---- *)
\* largest group size the denominator is computed for
MaxGroup == 24

\* n * sx2 - sx * sx is the positive integer n^2 * (n^2 - 1) / 12
PositiveDenominator(n) ==
  LET den == RankDenominator(n)
  IN /\ den.t = "number"
     /\ den.d = 1
     /\ den.n > 0
     /\ 12 * den.n = n * n * (n * n - 1)

\* C28: the regression denominator n*Sum(x^2) - Sum(x)^2 over the ranks
\* 0..n-1 is n^2*(n^2-1)/12, positive for every group of n >= 2 records, so
\* the slope and the intercept analyzeTrends returns are finite numbers.
C28_DenominatorPositive ==
  /\ \A c \in Calls :
       pc[c] = "done" =>
         \A n \in 2..MaxGroup : n <= Len(callData[c]) => PositiveDenominator(n)
  /\ (aPc = "done" /\ StringCategories) =>
       \A cat \in InputCategories :
         RecordsOf(cat) >= 2 =>
           /\ PositiveDenominator(RecordsOf(cat))
           /\ aResult[KeyOf(cat)] # Null
           /\ aResult[KeyOf(cat)].slope.t = "number"
           /\ aResult[KeyOf(cat)].intercept.t = "number"

\* a flat group of 3 records: slope 0 and intercept 5 are finite although
\* r2 is not
C28_Witness ==
  /\ aPc = "done"
  /\ RecordsOf(Str("a")) = 3
  /\ aResult["a"].slope = QInt(0)
  /\ aResult["a"].intercept = QInt(5)
  /\ aResult["a"].r2 = NaN

(* ---- C29 ---- *)
\* the step by Schrage's decomposition of 2147483647 = 16807 * 127773 + 2836
Schrage(s) ==
  LET t == 16807 * (s % 127773) - 2836 * (s \div 127773)
  IN IF t > 0 THEN t ELSE t + 2147483647

\* C29: a closure started from a seed in 1..2147483646 keeps its seed in
\* that range, never 0, every value it returns lies in [0,1), and two
\* closures started from the same seed return the same sequence.
C29_SeedStaysInRange ==
  /\ \A g \in Closures :
       exPc[g] = "ready" =>
         /\ 1 <= exSeed[g] /\ exSeed[g] <= 2147483646
         /\ \A k \in DOMAIN exOuts[g] :
              /\ 0 <= exOuts[g][k] /\ exOuts[g][k] < 2147483646
              /\ exOuts[g][k] + 1 = Schrage(IF k = 1 THEN exStart[g] ELSE exOuts[g][k - 1] + 1)
  /\ (exPc[1] = "ready" /\ exPc[2] = "ready" /\ exStart[1] = exStart[2]) =>
       \A k \in DOMAIN exOuts[1] \cap DOMAIN exOuts[2] : exOuts[1][k] = exOuts[2][k]

\* two closures from the seed whose successor is 2147483646, the second
\* one call behind the first
C29_Witness ==
  /\ exStart[1] = 739806647
  /\ exStart[2] = 739806647
  /\ Len(exOuts[1]) = 3
  /\ Len(exOuts[2]) = 2
  /\ exOuts[1][1] = 2147483645
  /\ exOuts[2][2] = exOuts[1][2]

(* ---- C30 ---- *)
\* C30: a run of handleGenerate that awaits its promise has isLoading true
\* and error null; a run that ended left isLoading false, with the new
\* code and error null when the promise resolved, with the message and
\* the code of before when it rejected; the button is disabled exactly
\* while isLoading, so no two runs ever await at once.
C30_OneRunAtATime ==
  /\ inFlight <= 1
  /\ disabled = isLoading
  /\ inFlight > 0 => (isLoading /\ error = NoMessage /\ outcome = "none")
  /\ inFlight = 0 => ~isLoading
  /\ (inFlight = 0 /\ outcome = "resolved") =>
       (error = NoMessage /\ generatedCode = settledCode)
  /\ (inFlight = 0 /\ outcome = "rejected") =>
       (error = FailureMessage /\ generatedCode = codeAtStart)

\* a run that rejected after a run that resolved: the message is set and
\* the code of the first run is still shown
C30_Witness ==
  /\ runs = 2
  /\ inFlight = 0
  /\ outcome = "rejected"
  /\ error = FailureMessage
  /\ generatedCode = DEFAULT_CONFIG
  /\ config # runConfig
  /\ ~isLoading

====
